---- MODULE Spec2Model ----
(***************************************************************************)
(* Model of the clouddley CLI's AWS VM commands (cmd/vm/aws):              *)
(*   - the lifecycle commands start / stop / delete, which walk a batch of *)
(*     instance ids and run describe -> gate -> transition per target;     *)
(*   - createOrGetSecurityGroup, the security-group step of create;        *)
(*   - runCreate, the create flow around it.                               *)
(* The EC2 provider is modelled as the state the calls read and write,     *)
(* every call being recorded in a log together with its response.          *)
(***************************************************************************)
EXTENDS Integers, Sequences, FiniteSets, TLC

\* ------------------------------------------------------------------------
\* Bounds
\* ------------------------------------------------------------------------
MaxBatch == 2        \* longest batch of target identifiers
MaxOutOfBand == 1    \* out-of-band state changes during one invocation
MaxRuns == 2         \* successive runs of the security-group step

\* ------------------------------------------------------------------------
\* Lifecycle commands: data
\* ------------------------------------------------------------------------
InstanceIds == {"i-aaa", "i-bbb"}

\* the six lifecycle names the commands compare against
LifecycleStates ==
    {"pending", "running", "stopping", "stopped", "terminating", "terminated"}

\* state names the provider can report (EC2 says shutting-down while an
\* instance is being terminated)
ProviderStates == LifecycleStates \cup {"shutting-down"}

Absent == "absent"

\* an instance the provider returns without a State
NilState == "<nil>"
NoError == "nil"
Operations == {"start", "stop", "terminate"}

VARIABLES
    op,              \* the command of this invocation
    instanceIDs,     \* the parsed batch, in input order
    idx,             \* position of the target being processed (1-based)
    pc,              \* position inside the per-target step
    instances,       \* provider side: id -> state name, or Absent
    describeResult,  \* response of the describe of the current target
    currentState,    \* state name read out of describeResult
    err,             \* error returned by the per-target function
    successful,      \* ids reported successful, in order
    failed,          \* ids reported failed, in order
    output,          \* the result line printed for each processed target
    calls,           \* log of provider calls with their responses
    outOfBand,       \* out-of-band changes still allowed
    idFlag,          \* the value of --id, a sequence of characters
    skipConfirmation,\* the value of --yes
    stdin,           \* the characters standard input still holds
    cmdErr,          \* the error line printed before an early return
    cmdLog,          \* log of the command's steps before the batch loop
    responses,       \* provider side: "documented" responses only, or "any"
    \* --- the security-group step of create
    sgGroupId,       \* provider side: id of clouddley-default-sg, or NoGroup
    sgRules,         \* provider side: the ingress rules of that group
    sgPc,            \* per invocation: position in createOrGetSecurityGroup
    sgID,            \* per invocation: local sgID
    needsRules,      \* per invocation: local needsRules
    permissions,     \* per invocation: local permissions
    sgReturns,       \* per invocation: what each finished run returned
    sgCalls,         \* log of the security-group calls and their responses
    \* --- the create flow
    createPc,        \* position in runCreate / handleSSHKeys / createInstance
    keyPairRemote,   \* provider side: clouddley-default-key exists
    localKeys,       \* the key types CheckLocalSSHKeys found
    selectedKey,     \* handleSSHKeys: the key chosen for import, or NoKey
    envChoice,       \* runCreate: envChoice
    instanceTypes,   \* runCreate: instances (the priced instance types)
    instanceChoice,  \* runCreate: instanceChoice
    network,         \* createInstance: the vpc and subnet ids found
    amiID,           \* createInstance: amiID
    instanceID,      \* createInstance: id of the launched instance
    publicIP,        \* createInstance: public address of the record
    createErr,       \* the error that ended the flow, or NoError
    createCalls,     \* log of the provider calls of the create flow
    fileOps,         \* log of the local file operations of handleSSHKeys
    bgTask,          \* the background tasks that have not returned yet
    bgLog,           \* log of task starts, channel sends and receives
    priceIdx,        \* pricing task: position in instanceSpecs
    priced,          \* pricing task: its local instances
    doneChan,        \* the buffer of the channel done
    errorChan,       \* the buffer of the channel errorChan
    images,          \* provider side: the images DescribeImages can see
    patternIdx,      \* getLatestUbuntuAMI: position in patterns
    instanceState,   \* provider side: state of the launched instance
    confirmResult,   \* runCreate: outcome of the confirmation prompt
    installErr,      \* runCreate: err of installClouddleyKey
    sshOps,          \* log of the ssh commands of installClouddleyKey
    authorizedKeys,  \* host side: the lines of ~/.ssh/authorized_keys
    loading,         \* the spinner program of the provisioning wait
    now,             \* the clock, in seconds
    fleet,           \* provider side: the instances of the account
    listed,          \* runList: what the last list command printed
    keyModel         \* handleSSHKeys: the model of the key selection screen

cmdVars == <<idFlag, skipConfirmation, stdin, cmdErr, cmdLog, responses>>

lifecycleVars == <<op, instanceIDs, idx, pc, instances, describeResult,
                   currentState, err, successful, failed, output, calls,
                   outOfBand, cmdVars>>

sgVars == <<sgGroupId, sgRules, sgPc, sgID, needsRules, permissions,
            sgReturns, sgCalls>>

bgVars == <<bgTask, bgLog, priceIdx, priced, doneChan, errorChan>>

imageVars == <<images, patternIdx>>

fleetVars == <<now, fleet, listed>>

postVars == <<confirmResult, installErr, sshOps, authorizedKeys, loading,
              fleetVars, keyModel>>

createVars == <<createPc, keyPairRemote, localKeys, selectedKey, envChoice,
                instanceTypes, instanceChoice, network, amiID, instanceID,
                publicIP, createErr, createCalls, fileOps, bgVars, imageVars,
                instanceState, postVars>>

vars == <<lifecycleVars, sgVars, createVars>>

\* ------------------------------------------------------------------------
\* Lifecycle commands: the state gates
\* ------------------------------------------------------------------------
startGate_NoPendingCheck(s) ==
    IF s = "running" THEN "instance is already running"
    ELSE IF s = "terminated" \/ s = "terminating"
         THEN "instance is terminated or being terminated"
    ELSE NoError

startGate(s) ==
    IF s = "running" THEN "instance is already running"
    ELSE IF s = "pending" THEN "instance is already starting"
    ELSE IF s = "terminated" \/ s = "terminating"
         THEN "instance is terminated or being terminated"
    ELSE NoError

stopGate_NoStoppedCheck(s) ==
    IF s = "stopping" THEN "instance is already being stopped"
    ELSE IF s = "terminated" \/ s = "terminating"
         THEN "instance is terminated or being terminated"
    ELSE NoError

stopGate(s) ==
    IF s = "stopped" THEN "instance is already stopped"
    ELSE IF s = "stopping" THEN "instance is already being stopped"
    ELSE IF s = "terminated" \/ s = "terminating"
         THEN "instance is terminated or being terminated"
    ELSE NoError

terminateGate_AllowList(s) ==
    IF s = "terminated" THEN "instance is already terminated"
    ELSE IF s \in {"pending", "running", "stopping", "stopped"} THEN NoError
    ELSE "instance is already being terminated"

terminateGate(s) ==
    IF s = "terminated" THEN "instance is already terminated"
    ELSE IF s = "terminating" THEN "instance is already being terminated"
    ELSE NoError

Gate(o, s) ==
    CASE o = "start" -> startGate(s)
      [] o = "stop" -> stopGate(s)
      [] o = "terminate" -> terminateGate(s)

TransitionAPI(o) ==
    CASE o = "start" -> "StartInstances"
      [] o = "stop" -> "StopInstances"
      [] o = "terminate" -> "TerminateInstances"

TransitionError(o) ==
    CASE o = "start" -> "failed to start instance"
      [] o = "stop" -> "failed to stop instance"
      [] o = "terminate" -> "failed to terminate instance"

\* state the provider moves an instance to when it accepts the call
ProviderAfter(o) ==
    CASE o = "start" -> "pending"
      [] o = "stop" -> "stopping"
      [] o = "terminate" -> "shutting-down"

\* the shapes a describe response can have for an instance
\* (a sequence of reservations, each a sequence of instance states)
DescribeShapes(id) ==
    IF instances[id] = Absent
    THEN {<<>>, << <<>> >>}
    ELSE {<< <<instances[id]>> >>} \cup
         (IF responses = "any" THEN {<< <<NilState>> >>} ELSE {})

IsEmptyDescribe(res) ==
    Len(res) = 0 \/ Len(res[1]) = 0

fetchError_NotFoundAsTerminated(res) ==
    IF res.failed THEN "failed to describe instance"
    ELSE IF IsEmptyDescribe(res.reservations)
         THEN "instance is terminated or being terminated"
    ELSE NoError

\* the error the per-target function returns right after the describe
fetchError(res) ==
    IF res.failed THEN "failed to describe instance"
    ELSE IF IsEmptyDescribe(res.reservations) THEN "instance not found"
    ELSE NoError

\* currentState := string(instance.State.Name)
fetchedState(res) == res.reservations[1][1]

describeTarget_First(i) == instanceIDs[1]

\* the id the loop hands to the per-target function at position i
describeTarget(i) == instanceIDs[i]

\* ------------------------------------------------------------------------
\* Lifecycle commands: the --id flag and the confirmation prompt
\* ------------------------------------------------------------------------
\* strings are sequences of characters; unicode.IsSpace on the characters
\* the model uses
Whitespace == {" ", "\t", "\n", "\r"}

RECURSIVE Split(_, _)
\* strings.Split(s, sep): the segments between the separators, an empty
\* string giving one empty segment
Split(s, sep) ==
    IF \A i \in 1..Len(s) : s[i] # sep THEN <<s>>
    ELSE LET k == CHOOSE i \in 1..Len(s) :
                      /\ s[i] = sep
                      /\ \A j \in 1..(i - 1) : s[j] # sep
         IN  <<SubSeq(s, 1, k - 1)>> \o Split(SubSeq(s, k + 1, Len(s)), sep)

RECURSIVE TrimLeft(_)
TrimLeft(s) ==
    IF Len(s) > 0 /\ s[1] \in Whitespace THEN TrimLeft(Tail(s)) ELSE s

RECURSIVE TrimRight(_)
TrimRight(s) ==
    IF Len(s) > 0 /\ s[Len(s)] \in Whitespace
    THEN TrimRight(SubSeq(s, 1, Len(s) - 1)) ELSE s

\* strings.TrimSpace
TrimSpace(s) == TrimRight(TrimLeft(s))

parseInstanceIDs_KeepEmpty(flag) ==
    LET parts == Split(flag, ",")
    IN  [i \in 1..Len(parts) |-> TrimSpace(parts[i])]

parseInstanceIDs_NoTrim(flag) ==
    SelectSeq(Split(flag, ","), LAMBDA t : t # <<>>)

\* runStart / runStop / runDelete: the loop that fills instanceIDs from
\* the --id value
parseInstanceIDs(flag) ==
    LET parts == Split(flag, ",")
        trimmed == [i \in 1..Len(parts) |-> TrimSpace(parts[i])]
    IN  SelectSeq(trimmed, LAMBDA t : t # <<>>)

\* an identifier of InstanceIds is written in the flag as one symbol; as a
\* target it is that identifier
IdOf(segment) ==
    IF Len(segment) = 1 /\ segment[1] \in InstanceIds THEN segment[1]
    ELSE segment

\* the --id value that lists the identifiers ids: strings.Join(ids, ",")
flagOf(ids) ==
    [i \in 1..(2 * Len(ids) - 1) |->
        IF i % 2 = 1 THEN ids[(i + 1) \div 2] ELSE ","]

\* reader.ReadString('\n'): the characters up to and including the first
\* newline, or what is left and io.EOF when there is none
ReadString(stream) ==
    IF \E i \in 1..Len(stream) : stream[i] = "\n"
    THEN LET k == CHOOSE i \in 1..Len(stream) :
                      /\ stream[i] = "\n"
                      /\ \A j \in 1..(i - 1) : stream[j] # "\n"
         IN  [line |-> SubSeq(stream, 1, k), err |-> NoError,
              rest |-> SubSeq(stream, k + 1, Len(stream))]
    ELSE [line |-> stream, err |-> "EOF", rest |-> <<>>]

UpperToLower == [Y |-> "y", E |-> "e", S |-> "s", N |-> "n", O |-> "o"]

\* strings.ToLower on the letters the model uses
ToLower(s) ==
    [i \in 1..Len(s) |-> IF s[i] \in DOMAIN UpperToLower
                         THEN UpperToLower[s[i]] ELSE s[i]]

isConfirmed_AnyButNo(response) ==
    LET r == TrimSpace(ToLower(response))
    IN  r # <<"n">> /\ r # <<"n", "o">>

isConfirmed_NoTrim(response) ==
    LET r == ToLower(response)
    IN  r = <<"y">> \/ r = <<"y", "e", "s">>

\* the test of the answer to the prompt: y or yes
isConfirmed(response) ==
    LET r == TrimSpace(ToLower(response))
    IN  r = <<"y">> \/ r = <<"y", "e", "s">>

\* one entry of the log of the command's steps
CmdStep(step, ok) == [step |-> step, ok |-> ok]

\* the command's variables once it has reached the batch loop for the
\* targets ids, --yes given
AtLoop(ids) ==
    /\ idFlag = flagOf(ids)
    /\ skipConfirmation = TRUE
    /\ stdin = <<>>
    /\ cmdErr = NoError
    /\ cmdLog = <<CmdStep("ValidateAWSCredentials", TRUE),
                  CmdStep("GetEC2Client", TRUE)>>

\* ------------------------------------------------------------------------
\* Lifecycle commands: the per-target step and the batch loop
\* ------------------------------------------------------------------------
NoResult == [failed |-> FALSE, reservations |-> <<>>]

SgIdle ==
    /\ sgGroupId = "none"
    /\ sgRules = {}
    /\ sgPc = [p \in {1, 2} |-> "idle"]
    /\ sgID = [p \in {1, 2} |-> ""]
    /\ needsRules = [p \in {1, 2} |-> FALSE]
    /\ permissions = [p \in {1, 2} |-> <<>>]
    /\ sgReturns = [p \in {1, 2} |-> <<>>]
    /\ sgCalls = <<>>

NoKey == "none"
NoNetwork == [vpc |-> "", subnet |-> ""]
NoTask == {}

\* NewConfirmationModel: Yes is highlighted, nothing answered
NewConfirmationModel == [choice |-> 0, selected |-> TRUE, answered |-> FALSE]

\* the lines of authorized_keys are sequences of words; the line that
\* holds the key the user imported for the launch
UserKeyLine == <<"ssh-ed25519", "AAAAC3NzaC1lZDI1NTE5", "user@host">>

\* a file that exists and holds the given lines
File(lines) == [exists |-> TRUE, lines |-> lines]

\* the file of a host that has just been launched
FreshHostFile == File(<<UserKeyLine>>)

\* no list command has run
NoList == [err |-> NoError, rows |-> <<>>, ran |-> FALSE]

\* the clock at its start, no instance in the account, nothing listed
FleetIdle ==
    /\ now = 0
    /\ fleet = <<>>
    /\ listed = NoList

\* NewSSHKeySelectionModel: the cursor on the first choice, nothing
\* selected
NewSSHKeySelectionModel == [cursor |-> 0, selected |-> FALSE]

SpinnerFrames == 10  \* the runes of the spinner string

TickMsg == "tick"

\* NewLoadingModel: the first frame, not finished
NewLoadingModel == [frame |-> 0, finished |-> FALSE]

loadingUpdate_QuitOnInterrupt(m, msg) ==
    IF msg = TickMsg
    THEN IF ~m.finished
         THEN [model |-> [m EXCEPT !.frame = IF m.frame + 1 >= SpinnerFrames
                                             THEN 0 ELSE m.frame + 1],
               cmd |-> "tick"]
         ELSE [model |-> m, cmd |-> "nil"]
    ELSE IF msg \in {"ctrl+c", "q"}
    THEN [model |-> m, cmd |-> "quit"]
    ELSE [model |-> m, cmd |-> "nil"]

\* LoadingModel.Update: a tick advances the frame and asks for the next
\* tick; a key message returns the model with no command
loadingUpdate(m, msg) ==
    IF msg = TickMsg
    THEN IF ~m.finished
         THEN [model |-> [m EXCEPT !.frame = IF m.frame + 1 >= SpinnerFrames
                                             THEN 0 ELSE m.frame + 1],
               cmd |-> "tick"]
         ELSE [model |-> m, cmd |-> "nil"]
    ELSE [model |-> m, cmd |-> "nil"]

\* the spinner program: its model, whether it runs, whether a tick is
\* due, and the key messages it has been given
Program(m, running, ticking, keys) ==
    [model |-> m, running |-> running, ticking |-> ticking, keys |-> keys]

NoProgram == Program(NewLoadingModel, FALSE, FALSE, 0)

CreateIdle ==
    /\ createPc = "idle"
    /\ keyPairRemote = FALSE
    /\ localKeys = <<>>
    /\ selectedKey = NoKey
    /\ envChoice = -1
    /\ instanceTypes = <<>>
    /\ instanceChoice = -1
    /\ network = NoNetwork
    /\ amiID = ""
    /\ instanceID = ""
    /\ publicIP = ""
    /\ createErr = NoError
    /\ createCalls = <<>>
    /\ fileOps = <<>>
    /\ bgTask = NoTask
    /\ bgLog = <<>>
    /\ priceIdx = 0
    /\ priced = <<>>
    /\ doneChan = <<>>
    /\ errorChan = <<>>
    /\ images = <<>>
    /\ patternIdx = 0
    /\ instanceState = Absent
    /\ confirmResult = NewConfirmationModel
    /\ installErr = NoError
    /\ sshOps = <<>>
    /\ authorizedKeys = FreshHostFile
    /\ loading = NoProgram
    /\ FleetIdle
    /\ keyModel = NewSSHKeySelectionModel

Init ==
    /\ SgIdle
    /\ CreateIdle
    /\ op \in Operations
    /\ instanceIDs \in UNION {[1..n -> InstanceIds] : n \in 1..MaxBatch}
    /\ idx = 1
    /\ pc = "describe"
    /\ instances \in [InstanceIds -> ProviderStates \cup {Absent}]
    /\ describeResult = NoResult
    /\ currentState = ""
    /\ err = NoError
    /\ successful = <<>>
    /\ failed = <<>>
    /\ output = <<>>
    /\ calls = <<>>
    /\ outOfBand = MaxOutOfBand
    /\ AtLoop(instanceIDs)
    /\ responses = "documented"

\* client.DescribeInstances for the current target
DescribeInstance ==
    /\ pc = "describe"
    /\ idx <= Len(instanceIDs)
    /\ \E res \in {[failed |-> TRUE, reservations |-> <<>>]} \cup
                  {[failed |-> FALSE, reservations |-> r] :
                       r \in DescribeShapes(describeTarget(idx))} :
         /\ describeResult' = res
         /\ calls' = Append(calls, [api |-> "DescribeInstances",
                                    id |-> describeTarget(idx), pos |-> idx,
                                    failed |-> res.failed,
                                    reservations |-> res.reservations])
    /\ pc' = "validate"
    /\ UNCHANGED <<op, instanceIDs, idx, instances, currentState, err,
                   successful, failed, output, outOfBand, sgVars, createVars,
                   cmdVars>>

\* instance.State.Name on a nil State: the dereference panics
nilStateDeref ==
    /\ pc' = "crashed"
    /\ UNCHANGED <<currentState, err>>

\* the checks between the describe and the transition call
ValidateState ==
    /\ pc = "validate"
    /\ IF fetchError(describeResult) # NoError
       THEN /\ err' = fetchError(describeResult)
            /\ pc' = "report"
            /\ UNCHANGED currentState
       ELSE IF fetchedState(describeResult) = NilState
       THEN nilStateDeref
       ELSE /\ currentState' = fetchedState(describeResult)
            /\ err' = Gate(op, fetchedState(describeResult))
            /\ pc' = IF Gate(op, fetchedState(describeResult)) = NoError
                     THEN "transition" ELSE "report"
    /\ UNCHANGED <<op, instanceIDs, idx, instances, describeResult,
                   successful, failed, output, calls, outOfBand, sgVars, createVars,
                   cmdVars>>

\* client.StartInstances / StopInstances / TerminateInstances
IssueTransition ==
    /\ pc = "transition"
    /\ \E rejected \in BOOLEAN :
         /\ calls' = Append(calls, [api |-> TransitionAPI(op),
                                    id |-> describeTarget(idx), pos |-> idx,
                                    failed |-> rejected,
                                    reservations |-> <<>>])
         /\ err' = IF rejected THEN TransitionError(op) ELSE NoError
         /\ instances' = IF rejected \/ instances[describeTarget(idx)] = Absent
                         THEN instances
                         ELSE [instances EXCEPT ![describeTarget(idx)] =
                                   ProviderAfter(op)]
    /\ pc' = "report"
    /\ UNCHANGED <<op, instanceIDs, idx, describeResult, currentState,
                   successful, failed, output, outOfBand, sgVars, createVars,
                   cmdVars>>

ReportTarget_AbortOnFailure ==
    /\ pc = "report"
    /\ IF err # NoError
       THEN /\ failed' = Append(failed, instanceIDs[idx])
            /\ output' = Append(output, [kind |-> "error",
                                         id |-> instanceIDs[idx],
                                         msg |-> err])
            /\ UNCHANGED successful
       ELSE /\ successful' = Append(successful, instanceIDs[idx])
            /\ output' = Append(output, [kind |-> "success",
                                         id |-> instanceIDs[idx],
                                         msg |-> NoError])
            /\ UNCHANGED failed
    /\ idx' = idx + 1
    /\ pc' = IF idx + 1 <= Len(instanceIDs) /\ err = NoError
             THEN "describe" ELSE "done"
    /\ describeResult' = NoResult
    /\ currentState' = ""
    /\ err' = NoError
    /\ UNCHANGED <<op, instanceIDs, instances, calls, outOfBand, sgVars, createVars,
                   cmdVars>>

ReportTarget_NoElse ==
    /\ pc = "report"
    /\ IF err # NoError
       THEN /\ failed' = Append(failed, instanceIDs[idx])
            /\ output' = Append(output, [kind |-> "error",
                                         id |-> instanceIDs[idx],
                                         msg |-> err])
       ELSE /\ output' = Append(output, [kind |-> "success",
                                         id |-> instanceIDs[idx],
                                         msg |-> NoError])
            /\ UNCHANGED failed
    /\ successful' = Append(successful, instanceIDs[idx])
    /\ idx' = idx + 1
    /\ pc' = IF idx + 1 <= Len(instanceIDs) THEN "describe" ELSE "done"
    /\ describeResult' = NoResult
    /\ currentState' = ""
    /\ err' = NoError
    /\ UNCHANGED <<op, instanceIDs, instances, calls, outOfBand, sgVars, createVars,
                   cmdVars>>

\* the loop body of runStart / runStop / runDelete after the call returned
ReportTarget ==
    /\ pc = "report"
    /\ IF err # NoError
       THEN /\ failed' = Append(failed, instanceIDs[idx])
            /\ output' = Append(output, [kind |-> "error",
                                         id |-> instanceIDs[idx],
                                         msg |-> err])
            /\ UNCHANGED successful
       ELSE /\ successful' = Append(successful, instanceIDs[idx])
            /\ output' = Append(output, [kind |-> "success",
                                         id |-> instanceIDs[idx],
                                         msg |-> NoError])
            /\ UNCHANGED failed
    /\ idx' = idx + 1
    /\ pc' = IF idx + 1 <= Len(instanceIDs) THEN "describe" ELSE "done"
    /\ describeResult' = NoResult
    /\ currentState' = ""
    /\ err' = NoError
    /\ UNCHANGED <<op, instanceIDs, instances, calls, outOfBand, sgVars, createVars,
                   cmdVars>>

\* the provider's state changes behind the command's back
OutOfBandChange ==
    /\ pc # "done"
    /\ outOfBand > 0
    /\ \E id \in InstanceIds, s \in ProviderStates :
         /\ instances[id] # Absent
         /\ instances[id] # s
         /\ instances' = [instances EXCEPT ![id] = s]
    /\ outOfBand' = outOfBand - 1
    /\ UNCHANGED <<op, instanceIDs, idx, pc, describeResult, currentState,
                   err, successful, failed, output, calls, sgVars, createVars,
                   cmdVars>>

\* the error line of an early return of runStart / runStop / runDelete
EndCommand(line) ==
    /\ cmdErr' = line
    /\ pc' = "ended"

\* runStop: the --id value is checked and parsed into instanceIDs
CmdParseFlags ==
    /\ pc = "flags"
    /\ cmdLog' = Append(cmdLog, CmdStep("parse",
                                        Len(parseInstanceIDs(idFlag)) > 0))
    /\ IF idFlag = <<>>
       THEN /\ EndCommand("Error: --id flag is required")
            /\ UNCHANGED instanceIDs
       ELSE IF Len(parseInstanceIDs(idFlag)) = 0
       THEN /\ EndCommand("Error: No valid instance IDs provided")
            /\ UNCHANGED instanceIDs
       ELSE /\ instanceIDs' = [i \in 1..Len(parseInstanceIDs(idFlag)) |->
                                  IdOf(parseInstanceIDs(idFlag)[i])]
            /\ pc' = "credentials"
            /\ UNCHANGED cmdErr
    /\ UNCHANGED <<op, idx, instances, describeResult, currentState, err,
                   successful, failed, output, calls, outOfBand, idFlag,
                   skipConfirmation, stdin, responses, sgVars, createVars>>

\* runStop: ValidateAWSCredentials
CmdValidateCredentials ==
    /\ pc = "credentials"
    /\ \E outcome \in {"ok", "config", "invalid"} :
         /\ cmdLog' = Append(cmdLog, CmdStep("ValidateAWSCredentials",
                                             outcome = "ok"))
         /\ CASE outcome = "config" ->
                   EndCommand("Error: failed to load AWS config")
              [] outcome = "invalid" ->
                   EndCommand("Error: AWS credentials invalid or AWS_PROFILE not set")
              [] outcome = "ok" ->
                   /\ pc' = IF skipConfirmation THEN "client" ELSE "confirm"
                   /\ UNCHANGED cmdErr
    /\ UNCHANGED <<op, instanceIDs, idx, instances, describeResult,
                   currentState, err, successful, failed, output, calls,
                   outOfBand, idFlag, skipConfirmation, stdin, responses,
                   sgVars, createVars>>

\* runStop: the confirmation prompt, read from standard input
CmdConfirm ==
    /\ pc = "confirm"
    /\ stdin' = ReadString(stdin).rest
    /\ cmdLog' = Append(cmdLog,
           CmdStep("ReadString", /\ ReadString(stdin).err = NoError
                                 /\ isConfirmed(ReadString(stdin).line)))
    /\ IF ReadString(stdin).err # NoError
       THEN EndCommand("Error reading input")
       ELSE IF ~isConfirmed(ReadString(stdin).line)
       THEN EndCommand("Operation cancelled")
       ELSE /\ pc' = "client"
            /\ UNCHANGED cmdErr
    /\ UNCHANGED <<op, instanceIDs, idx, instances, describeResult,
                   currentState, err, successful, failed, output, calls,
                   outOfBand, idFlag, skipConfirmation, responses,
                   sgVars, createVars>>

\* runStop: GetEC2Client, after which the batch loop starts
CmdGetClient ==
    /\ pc = "client"
    /\ \E isFailed \in BOOLEAN :
         /\ cmdLog' = Append(cmdLog, CmdStep("GetEC2Client", ~isFailed))
         /\ IF isFailed
            THEN EndCommand("Failed to create EC2 client")
            ELSE /\ pc' = "describe"
                 /\ UNCHANGED cmdErr
    /\ UNCHANGED <<op, instanceIDs, idx, instances, describeResult,
                   currentState, err, successful, failed, output, calls,
                   outOfBand, idFlag, skipConfirmation, stdin, responses,
                   sgVars, createVars>>

Next ==
    \/ DescribeInstance
    \/ ValidateState
    \/ IssueTransition
    \/ ReportTarget
    \/ OutOfBandChange

Spec == Init /\ [][Next]_vars

\* ------------------------------------------------------------------------
\* A lifecycle command from its flags to the end of the batch
\* ------------------------------------------------------------------------
\* the instances that carry the tag CreatedBy=Clouddley (create sets it at
\* launch); the others were launched by other means
TaggedInstances == {"i-aaa"}

\* --id values: empty, only commas and spaces, one target, two targets
\* with spaces and empty segments, and the same target twice
CommandFlags ==
    {<<>>,
     <<",", " ", ",">>,
     <<"i-aaa">>,
     <<"i-aaa", ",", " ", "i-bbb", ",", ",">>,
     <<" ", "i-bbb", " ", ",", "i-aaa">>,
     <<"i-aaa", ",", "i-aaa">>}

\* what the user types at the prompt; the last two end without a newline
StdinInputs ==
    {<<"y", "\n">>, <<"Y", "\n">>, <<"y", "e", "s", "\n">>,
     <<" ", "Y", "E", "S", " ", "\r", "\n">>,
     <<"n", "\n">>, <<"\n">>, <<"y", "e", "\n">>,
     <<"y">>, <<>>}

CommandStates == {"running", "stopped", Absent}

InitCommand ==
    /\ SgIdle
    /\ CreateIdle
    /\ op \in Operations
    /\ instanceIDs = <<>>
    /\ idx = 1
    /\ pc = "flags"
    /\ instances \in [InstanceIds -> CommandStates]
    /\ describeResult = NoResult
    /\ currentState = ""
    /\ err = NoError
    /\ successful = <<>>
    /\ failed = <<>>
    /\ output = <<>>
    /\ calls = <<>>
    /\ outOfBand = 0
    /\ idFlag \in CommandFlags
    /\ skipConfirmation \in BOOLEAN
    /\ stdin \in StdinInputs
    /\ skipConfirmation => stdin = <<>>
    /\ cmdErr = NoError
    /\ cmdLog = <<>>
    /\ responses = "documented"

NextCommand ==
    \/ CmdParseFlags
    \/ CmdValidateCredentials
    \/ CmdConfirm
    \/ CmdGetClient
    \/ DescribeInstance
    \/ ValidateState
    \/ IssueTransition
    \/ ReportTarget

SpecCommand == InitCommand /\ [][NextCommand]_vars

MaxFlagLen == 4      \* longest --id value drawn from the alphabet

\* the characters of the --id values: the comma, two kinds of whitespace
\* and two other characters
FlagAlphabet == {",", " ", "\t", "a", "b"}

\* the --id value "i-aaa, i-bbb,,  i-ccc"
ExampleFlag ==
    <<"i", "-", "a", "a", "a", ",", " ", "i", "-", "b", "b", "b", ",", ",",
      " ", " ", "i", "-", "c", "c", "c">>

FlagInputs ==
    {ExampleFlag} \cup
    UNION {[1..n -> FlagAlphabet] : n \in 0..MaxFlagLen}

\* the parsing of the --id value on its own, for every value
InitParse ==
    /\ SgIdle
    /\ CreateIdle
    /\ op \in Operations
    /\ instanceIDs = <<>>
    /\ idx = 1
    /\ pc = "flags"
    /\ instances = [id \in InstanceIds |-> Absent]
    /\ describeResult = NoResult
    /\ currentState = ""
    /\ err = NoError
    /\ successful = <<>>
    /\ failed = <<>>
    /\ output = <<>>
    /\ calls = <<>>
    /\ outOfBand = 0
    /\ idFlag \in FlagInputs
    /\ skipConfirmation = FALSE
    /\ stdin = <<>>
    /\ cmdErr = NoError
    /\ cmdLog = <<>>
    /\ responses = "documented"

NextParse == CmdParseFlags

SpecParse == InitParse /\ [][NextParse]_vars

\* the result of rootCmd.Execute: the handlers are registered as Run
\* functions, which have no result, so whatever a handler printed before
\* it returned, the command tree reports no error
rootCmdExecute == NoError

\* cobra.CheckErr: leaves with status 1 on an error
CheckErr(e) == IF e = NoError THEN 0 ELSE 1

\* the exit status of the process once the handler has returned; a panic
\* ends the process with status 2
Execute ==
    IF pc = "crashed" \/ createPc = "crashed" THEN 2
    ELSE CheckErr(rootCmdExecute)

\* ------------------------------------------------------------------------
\* The security-group step: data
\* ------------------------------------------------------------------------
NilPort == -1        \* a nil FromPort / ToPort pointer
AnyCidr == "0.0.0.0/0"
NoGroup == "none"

Rule(proto, from, to, cidr) ==
    [proto |-> proto, from |-> from, to |-> to, cidr |-> cidr]

\* the three rules createOrGetSecurityGroup adds
BaselinePorts == <<22, 80, 443>>
BaselineRule(port) == Rule("tcp", port, port, AnyCidr)

\* ingress rules a pre-existing group may hold besides the baseline ones:
\* a narrower source, another protocol, a port range, all traffic
OtherRules ==
    {Rule("tcp", 22, 22, "10.0.0.0/8"),
     Rule("udp", 80, 80, AnyCidr),
     Rule("tcp", 80, 443, AnyCidr),
     Rule("-1", NilPort, NilPort, AnyCidr)}

RuleUniverse == {BaselineRule(22), BaselineRule(80), BaselineRule(443)}
                    \cup OtherRules

\* the IpPermissions of a describe response: the provider groups the rules
\* of one protocol and port range into one permission with several ranges
IpPermissions(rules) ==
    {[proto |-> r.proto, from |-> r.from, to |-> r.to,
      cidrs |-> {x.cidr : x \in {y \in rules : /\ y.proto = r.proto
                                               /\ y.from = r.from
                                               /\ y.to = r.to}}] :
        r \in rules}

hasPortFirstScan_AnyCidr(perms, port) ==
    \E rule \in perms :
        /\ rule.proto = "tcp"
        /\ rule.from # NilPort /\ rule.to # NilPort
        /\ rule.cidrs # {}
        /\ rule.from = port

\* the scan of the response of the lookup by name
hasPortFirstScan(perms, port) ==
    \E rule \in perms :
        /\ rule.proto = "tcp"
        /\ rule.from # NilPort /\ rule.to # NilPort
        /\ \E ipRange \in rule.cidrs : ipRange = AnyCidr
        /\ rule.from = port

hasPortReread_AnyProtocol(perms, port) ==
    \E rule \in perms :
        /\ rule.from # NilPort
        /\ \E ipRange \in rule.cidrs : ipRange = AnyCidr
        /\ rule.from = port

\* the scan of the response of the re-read by group id
hasPortReread(perms, port) ==
    \E rule \in perms :
        /\ rule.proto = "tcp"
        /\ rule.from # NilPort
        /\ \E ipRange \in rule.cidrs : ipRange = AnyCidr
        /\ rule.from = port

\* needsRules = !hasSSH || !hasHTTP || !hasHTTPS
needsRulesOf(perms) ==
    \/ ~hasPortFirstScan(perms, 22)
    \/ ~hasPortFirstScan(perms, 80)
    \/ ~hasPortFirstScan(perms, 443)

missingPermissions_All(groups) ==
    <<BaselineRule(22), BaselineRule(80), BaselineRule(443)>>

missingPermissions_OnlyFirst(groups) ==
    LET has(port) == Len(groups) > 0 /\ hasPortReread(groups[1], port)
    IN  IF ~has(22) THEN <<BaselineRule(22)>>
        ELSE IF ~has(80) THEN <<BaselineRule(80)>>
        ELSE IF ~has(443) THEN <<BaselineRule(443)>>
        ELSE <<>>

\* the permissions list built from the re-read response (a sequence of
\* groups, each a set of permissions): SSH, HTTP, HTTPS, the missing ones
missingPermissions(groups) ==
    LET has(port) == Len(groups) > 0 /\ hasPortReread(groups[1], port)
    IN  (IF ~has(22) THEN <<BaselineRule(22)>> ELSE <<>>)
        \o (IF ~has(80) THEN <<BaselineRule(80)>> ELSE <<>>)
        \o (IF ~has(443) THEN <<BaselineRule(443)>> ELSE <<>>)

SeqRange(q) == {q[i] : i \in 1..Len(q)}

\* the run of invocation p that is in progress (or the next one to start)
RunOf(p) == Len(sgReturns[p]) + 1

SgCall(p, api, isFailed, perms) ==
    [proc |-> p, run |-> RunOf(p), api |-> api, failed |-> isFailed,
     perms |-> perms, groupBefore |-> sgGroupId, rulesBefore |-> sgRules]

SgReturn(p, id, e) ==
    /\ sgReturns' = [sgReturns EXCEPT ![p] = Append(@, [id |-> id, err |-> e])]
    /\ sgPc' = [sgPc EXCEPT ![p] = "done"]

\* ------------------------------------------------------------------------
\* The security-group step: createOrGetSecurityGroup, one action per
\* provider call
\* ------------------------------------------------------------------------

\* DescribeSecurityGroups by group-name and vpc-id, and the first scan
SgDescribeByName(p) ==
    /\ sgPc[p] = "describe"
    /\ \E isFailed \in BOOLEAN :
         /\ sgCalls' = Append(sgCalls,
                SgCall(p, "DescribeSecurityGroups:name", isFailed, <<>>))
         /\ IF isFailed
            THEN /\ SgReturn(p, "", "failed to describe security groups")
                 /\ UNCHANGED <<sgID, needsRules>>
            ELSE IF sgGroupId # NoGroup
            THEN /\ sgID' = [sgID EXCEPT ![p] = sgGroupId]
                 /\ needsRules' = [needsRules EXCEPT ![p] =
                        needsRulesOf(IpPermissions(sgRules))]
                 /\ IF needsRulesOf(IpPermissions(sgRules))
                    THEN /\ sgPc' = [sgPc EXCEPT ![p] = "reread"]
                         /\ UNCHANGED sgReturns
                    ELSE SgReturn(p, sgGroupId, NoError)
            ELSE /\ sgPc' = [sgPc EXCEPT ![p] = "create"]
                 /\ UNCHANGED <<sgID, needsRules, sgReturns>>
    /\ UNCHANGED <<sgGroupId, sgRules, permissions, lifecycleVars, createVars>>

\* CreateSecurityGroup; the provider refuses a second group of that name
\* in the VPC
SgCreate(p) ==
    /\ sgPc[p] = "create"
    /\ \E transient \in BOOLEAN :
         LET isFailed == transient \/ sgGroupId # NoGroup
         IN  /\ sgCalls' = Append(sgCalls,
                    SgCall(p, "CreateSecurityGroup", isFailed, <<>>))
             /\ IF isFailed
                THEN /\ SgReturn(p, "", "failed to create security group")
                     /\ UNCHANGED <<sgGroupId, sgID, needsRules>>
                ELSE /\ sgGroupId' = "sg-created"
                     /\ sgID' = [sgID EXCEPT ![p] = "sg-created"]
                     /\ needsRules' = [needsRules EXCEPT ![p] = TRUE]
                     /\ sgPc' = [sgPc EXCEPT ![p] = "reread"]
                     /\ UNCHANGED sgReturns
    /\ UNCHANGED <<sgRules, permissions, lifecycleVars, createVars>>

\* DescribeSecurityGroups by group id, the second scan and the list of
\* missing permissions
SgReread(p) ==
    /\ sgPc[p] = "reread"
    /\ \E isFailed \in BOOLEAN :
         /\ sgCalls' = Append(sgCalls,
                SgCall(p, "DescribeSecurityGroups:id", isFailed, <<>>))
         /\ IF isFailed
            THEN /\ SgReturn(p, "", "failed to describe security group")
                 /\ UNCHANGED permissions
            ELSE LET groups == IF sgGroupId = sgID[p]
                               THEN <<IpPermissions(sgRules)>> ELSE <<>>
                     perms == missingPermissions(groups)
                 IN  /\ permissions' = [permissions EXCEPT ![p] = perms]
                     /\ IF Len(perms) > 0
                        THEN /\ sgPc' = [sgPc EXCEPT ![p] = "authorize"]
                             /\ UNCHANGED sgReturns
                        ELSE SgReturn(p, sgID[p], NoError)
    /\ UNCHANGED <<sgGroupId, sgRules, sgID, needsRules, lifecycleVars, createVars>>

\* AuthorizeSecurityGroupIngress; the provider refuses the whole call when
\* one of its rules is already there
SgAuthorize(p) ==
    /\ sgPc[p] = "authorize"
    /\ \E transient \in BOOLEAN :
         LET isFailed == transient
                         \/ SeqRange(permissions[p]) \cap sgRules # {}
         IN  /\ sgCalls' = Append(sgCalls,
                    SgCall(p, "AuthorizeSecurityGroupIngress", isFailed,
                           permissions[p]))
             /\ IF isFailed
                THEN /\ SgReturn(p, "", "failed to add security group rules")
                     /\ UNCHANGED sgRules
                ELSE /\ sgRules' = sgRules \cup SeqRange(permissions[p])
                     /\ SgReturn(p, sgID[p], NoError)
    /\ UNCHANGED <<sgGroupId, sgID, needsRules, permissions, lifecycleVars, createVars>>

\* the next call of createOrGetSecurityGroup by the same invocation
SgRunAgain(p) ==
    /\ sgPc[p] = "done"
    /\ Len(sgReturns[p]) < MaxRuns
    /\ sgPc' = [sgPc EXCEPT ![p] = "describe"]
    /\ sgID' = [sgID EXCEPT ![p] = ""]
    /\ needsRules' = [needsRules EXCEPT ![p] = FALSE]
    /\ permissions' = [permissions EXCEPT ![p] = <<>>]
    /\ UNCHANGED <<sgGroupId, sgRules, sgReturns, sgCalls, lifecycleVars, createVars>>

LifecycleIdle ==
    /\ op = "start"
    /\ instanceIDs = <<>>
    /\ idx = 1
    /\ pc = "done"
    /\ instances = [id \in InstanceIds |-> Absent]
    /\ describeResult = NoResult
    /\ currentState = ""
    /\ err = NoError
    /\ successful = <<>>
    /\ failed = <<>>
    /\ output = <<>>
    /\ calls = <<>>
    /\ outOfBand = 0
    /\ idFlag = <<>>
    /\ skipConfirmation = FALSE
    /\ stdin = <<>>
    /\ cmdErr = NoError
    /\ cmdLog = <<>>

\* the group is absent, or exists with any set of rules
SgProviderInit ==
    \/ /\ sgGroupId = NoGroup
       /\ sgRules = {}
    \/ /\ sgGroupId = "sg-existing"
       /\ sgRules \in SUBSET RuleUniverse

\* one invocation running the step MaxRuns times in succession
InitSG ==
    /\ LifecycleIdle
    /\ responses = "documented"
    /\ CreateIdle
    /\ SgProviderInit
    /\ sgPc = [p \in {1, 2} |-> IF p = 1 THEN "describe" ELSE "idle"]
    /\ sgID = [p \in {1, 2} |-> ""]
    /\ needsRules = [p \in {1, 2} |-> FALSE]
    /\ permissions = [p \in {1, 2} |-> <<>>]
    /\ sgReturns = [p \in {1, 2} |-> <<>>]
    /\ sgCalls = <<>>

NextSG ==
    \/ SgDescribeByName(1)
    \/ SgCreate(1)
    \/ SgReread(1)
    \/ SgAuthorize(1)
    \/ SgRunAgain(1)

SpecSG == InitSG /\ [][NextSG]_vars

\* two create invocations running the step once each, concurrently
InitRace ==
    /\ LifecycleIdle
    /\ responses = "documented"
    /\ CreateIdle
    /\ SgProviderInit
    /\ sgPc = [p \in {1, 2} |-> "describe"]
    /\ sgID = [p \in {1, 2} |-> ""]
    /\ needsRules = [p \in {1, 2} |-> FALSE]
    /\ permissions = [p \in {1, 2} |-> <<>>]
    /\ sgReturns = [p \in {1, 2} |-> <<>>]
    /\ sgCalls = <<>>

NextRace ==
    \E p \in {1, 2} :
        \/ SgDescribeByName(p)
        \/ SgCreate(p)
        \/ SgReread(p)
        \/ SgAuthorize(p)

SpecRace == InitRace /\ [][NextRace]_vars

\* ------------------------------------------------------------------------
\* The create flow: runCreate, handleSSHKeys, createInstance
\* ------------------------------------------------------------------------
MaxTypes == 2        \* instance types offered by the selection screen

Cancelled == -1      \* Selected() of a selection screen that was quit

\* the first entries of the two instance catalogs of getInstanceTypes
Catalog(isDev) ==
    IF isDev THEN <<"t3.nano", "t3.micro", "t3.small">>
    ELSE <<"m5.large", "m5.xlarge", "m5.2xlarge">>

\* getLatestUbuntuAMI: patterns (24.04 first, 22.04 as the fallback)
Patterns == <<"ubuntu-noble-24.04", "ubuntu-jammy-22.04">>

TrustedOwner == "099720109477"
OtherOwner == "111122223333"

\* creation timestamps, as strings of digits; a nil CreationDate
Dates == {<<0, 9>>, <<1, 0>>, <<1, 5>>}
NilDate == <<>>

ImageIds == <<"ami-1", "ami-2", "ami-3", "ami-4", "ami-5">>

\* the images the provider can hold: name family, owner, creation date
ImageUniverse == [name : SeqRange(Patterns), owner : {TrustedOwner, OtherOwner},
                  date : Dates]

\* a list of images in the provider's order, ids given by position
WithIds(imgs) ==
    [i \in 1..Len(imgs) |-> [id |-> ImageIds[i], name |-> imgs[i].name,
                             owner |-> imgs[i].owner, date |-> imgs[i].date]]

RECURSIVE StrGreater(_, _)
\* a > b on strings: the first differing character decides, a proper
\* prefix is smaller
StrGreater(a, b) ==
    IF Len(a) = 0 THEN FALSE
    ELSE IF Len(b) = 0 THEN TRUE
    ELSE IF a[1] # b[1] THEN a[1] > b[1]
    ELSE StrGreater(Tail(a), Tail(b))

imageQuery_NoOwnerFilter(pattern) ==
    [name |-> pattern, owners |-> {TrustedOwner, OtherOwner}]

\* getLatestUbuntuAMI: the DescribeImagesInput for a pattern
imageQuery(pattern) == [name |-> pattern, owners |-> {TrustedOwner}]

\* the provider's answer to a DescribeImages query
DescribeImages(catalogue, query) ==
    SelectSeq(catalogue, LAMBDA img : /\ img.name = query.name
                                      /\ img.owner \in query.owners)

latestImage_KeepFirst(latest, rest) == latest

RECURSIVE latestImage(_, _)
\* the scan for the latest creation date, starting from latest
latestImage(latest, rest) ==
    IF Len(rest) = 0 THEN latest
    ELSE IF /\ rest[1].date # NilDate
            /\ latest.date # NilDate
            /\ StrGreater(rest[1].date, latest.date)
         THEN latestImage(rest[1], Tail(rest))
         ELSE latestImage(latest, Tail(rest))

\* one entry of the log of provider calls: the call, what it was about,
\* and whether it returned an error
CrCallOn(api, arg, isFailed) == [api |-> api, arg |-> arg, failed |-> isFailed]

CrCall(api, isFailed) == CrCallOn(api, "", isFailed)

\* the flow prints the error and returns
Abort(e) ==
    /\ createPc' = "aborted"
    /\ createErr' = e

\* runCreate: ValidateAWSCredentials
CrValidateCredentials ==
    /\ createPc = "credentials"
    /\ \E outcome \in {"ok", "config", "invalid"} :
         CASE outcome = "config" ->
                /\ Abort("failed to load AWS config")
                /\ UNCHANGED createCalls
           [] outcome = "invalid" ->
                /\ Abort("AWS credentials invalid or AWS_PROFILE not set")
                /\ createCalls' = Append(createCalls,
                                         CrCall("DescribeRegions", TRUE))
           [] outcome = "ok" ->
                /\ createPc' = "keys_check"
                /\ createCalls' = Append(createCalls,
                                         CrCall("DescribeRegions", FALSE))
                /\ UNCHANGED createErr
    /\ UNCHANGED <<keyPairRemote, localKeys, selectedKey, envChoice,
                   instanceTypes, instanceChoice, network, amiID, instanceID,
                   publicIP, lifecycleVars, sgVars,
                   fileOps, bgVars, imageVars, instanceState, postVars>>

\* what DescribeKeyPairs can answer for clouddley-default-key
KeyPairResponses(exists) ==
    {"RequestError"} \cup
    (IF exists THEN {"ok"} ELSE {"InvalidKeyPair.NotFound"})

CheckAWSKeyPair_NeverExists(response) ==
    IF response \in {"ok", "InvalidKeyPair.NotFound"}
    THEN [exists |-> FALSE, err |-> NoError]
    ELSE [exists |-> FALSE, err |-> "failed to check key pair"]

CheckAWSKeyPair_ErrorAsFound(response) ==
    [exists |-> response # "InvalidKeyPair.NotFound", err |-> NoError]

\* CheckAWSKeyPair: a not-found error means absent, any other error fails
CheckAWSKeyPair(response) ==
    IF response = "ok" THEN [exists |-> TRUE, err |-> NoError]
    ELSE IF response = "InvalidKeyPair.NotFound"
         THEN [exists |-> FALSE, err |-> NoError]
    ELSE [exists |-> FALSE, err |-> "failed to check key pair"]

\* handleSSHKeys: CheckAWSKeyPair
CrCheckKeyPair ==
    /\ createPc = "keys_check"
    /\ \E response \in KeyPairResponses(keyPairRemote) :
         /\ createCalls' = Append(createCalls,
                CrCallOn("DescribeKeyPairs", response,
                         response \notin {"ok", "InvalidKeyPair.NotFound"}))
         /\ IF CheckAWSKeyPair(response).err # NoError
            THEN Abort(CheckAWSKeyPair(response).err)
            ELSE /\ createPc' = IF CheckAWSKeyPair(response).exists
                                THEN "env_select" ELSE "keys_local"
                 /\ UNCHANGED createErr
    /\ UNCHANGED <<keyPairRemote, localKeys, selectedKey, envChoice,
                   instanceTypes, instanceChoice, network, amiID, instanceID,
                   publicIP, lifecycleVars, sgVars,
                   fileOps, bgVars, imageVars, instanceState, postVars>>

\* the public key files CheckLocalSSHKeys probes, in its order
KeyFiles == <<[type |-> "rsa", path |-> "~/.ssh/id_rsa.pub"],
              [type |-> "ed25519", path |-> "~/.ssh/id_ed25519.pub"]>>

\* one entry of the log of local file operations
FileOp(kind, path, ok) == [op |-> kind, path |-> path, ok |-> ok]

\* CheckLocalSSHKeys: the keys whose file exists, rsa before ed25519
CheckLocalSSHKeys(existing) ==
    (IF "rsa" \in existing THEN <<"rsa">> ELSE <<>>) \o
    (IF "ed25519" \in existing THEN <<"ed25519">> ELSE <<>>)

KeyPath(type) == IF type = "rsa" THEN KeyFiles[1].path ELSE KeyFiles[2].path

\* the error of handleSSHKeys when no local public key exists
NoSSHKeyMessage ==
    "no SSH public key found. Generate one using: ssh-keygen -t ed25519 (recommended) or ssh-keygen -t rsa -b 4096. Then retry the command"

handleNoLocalKey_UseEmpty ==
    /\ createPc' = "env_select"
    /\ UNCHANGED createErr

\* handleSSHKeys: len(localKeys) == 0
handleNoLocalKey == Abort(NoSSHKeyMessage)

\* handleSSHKeys: CheckLocalSSHKeys and the choice among zero or one key
CrCheckLocalKeys ==
    /\ createPc = "keys_local"
    /\ \E existing \in SUBSET {"rsa", "ed25519"} :
         LET keys == CheckLocalSSHKeys(existing) IN
         /\ localKeys' = keys
         /\ fileOps' = fileOps \o
                [i \in 1..2 |-> FileOp("Stat", KeyFiles[i].path,
                                       KeyFiles[i].type \in existing)]
         /\ IF Len(keys) = 0
            THEN /\ handleNoLocalKey
                 /\ UNCHANGED selectedKey
            ELSE IF Len(keys) = 1
            THEN /\ selectedKey' = keys[1]
                 /\ createPc' = "keys_read"
                 /\ UNCHANGED createErr
            ELSE /\ createPc' = "keys_select"
                 /\ UNCHANGED <<selectedKey, createErr>>
    /\ UNCHANGED <<keyPairRemote, envChoice, instanceTypes, instanceChoice,
                   network, amiID, instanceID, publicIP, createCalls,
                   lifecycleVars, sgVars,
                   bgVars, imageVars, instanceState, postVars>>

\* the keys the user can press at the key selection screen; "x" is any
\* other key
SelectionKeys == {"ctrl+c", "q", "up", "k", "down", "j", "enter", " ", "x"}

keySelectUpdate_UpUnbounded(m, key, choices) ==
    CASE key \in {"ctrl+c", "q"} -> [model |-> m, quit |-> TRUE]
      [] key \in {"up", "k"} ->
            [model |-> [m EXCEPT !.cursor = m.cursor - 1], quit |-> FALSE]
      [] key \in {"down", "j"} ->
            [model |-> IF m.cursor < choices - 1
                       THEN [m EXCEPT !.cursor = m.cursor + 1] ELSE m,
             quit |-> FALSE]
      [] key \in {"enter", " "} ->
            [model |-> [m EXCEPT !.selected = TRUE], quit |-> TRUE]
      [] OTHER -> [model |-> m, quit |-> FALSE]

\* SSHKeySelectionModel.Update for a key message, choices being
\* len(m.choices)
keySelectUpdate(m, key, choices) ==
    CASE key \in {"ctrl+c", "q"} -> [model |-> m, quit |-> TRUE]
      [] key \in {"up", "k"} ->
            [model |-> IF m.cursor > 0
                       THEN [m EXCEPT !.cursor = m.cursor - 1] ELSE m,
             quit |-> FALSE]
      [] key \in {"down", "j"} ->
            [model |-> IF m.cursor < choices - 1
                       THEN [m EXCEPT !.cursor = m.cursor + 1] ELSE m,
             quit |-> FALSE]
      [] key \in {"enter", " "} ->
            [model |-> [m EXCEPT !.selected = TRUE], quit |-> TRUE]
      [] OTHER -> [model |-> m, quit |-> FALSE]

\* SSHKeySelectionModel.Selected
SelectedKeyIndex(m) == IF m.selected THEN m.cursor ELSE Cancelled

\* handleSSHKeys: the key selection screen, one key press at a time
CrSelectKey ==
    /\ createPc = "keys_select"
    /\ \E key \in SelectionKeys :
         LET u == keySelectUpdate(keyModel, key, Len(localKeys))
             keyChoice == SelectedKeyIndex(u.model)
         IN  /\ keyModel' = u.model
             /\ IF ~u.quit
                THEN UNCHANGED <<createPc, createErr, selectedKey>>
                ELSE IF keyChoice = Cancelled
                THEN /\ Abort("operation cancelled")
                     /\ UNCHANGED selectedKey
                ELSE /\ selectedKey' = localKeys[keyChoice + 1]
                     /\ createPc' = "keys_read"
                     /\ UNCHANGED createErr
    /\ UNCHANGED <<keyPairRemote, localKeys, envChoice, instanceTypes,
                   instanceChoice, network, amiID, instanceID, publicIP,
                   createCalls, lifecycleVars, sgVars,
                   fileOps, bgVars, imageVars, instanceState, confirmResult,
                   installErr, sshOps, authorizedKeys, loading, fleetVars>>

\* handleSSHKeys: ReadSSHPublicKey
CrReadKey ==
    /\ createPc = "keys_read"
    /\ \E isFailed \in BOOLEAN :
         /\ fileOps' = Append(fileOps, FileOp("ReadFile", KeyPath(selectedKey),
                                              ~isFailed))
         /\ IF isFailed
            THEN Abort("failed to read SSH key")
            ELSE /\ createPc' = "keys_import"
                 /\ UNCHANGED createErr
    /\ UNCHANGED <<keyPairRemote, localKeys, selectedKey, envChoice,
                   instanceTypes, instanceChoice, network, amiID, instanceID,
                   publicIP, createCalls, lifecycleVars, sgVars,
                   bgVars, imageVars, instanceState, postVars>>

\* handleSSHKeys: ImportSSHKeyPair
CrImportKey ==
    /\ createPc = "keys_import"
    /\ \E isFailed \in BOOLEAN :
         /\ createCalls' = Append(createCalls,
                                  CrCall("ImportKeyPair", isFailed))
         /\ IF isFailed
            THEN /\ Abort("failed to import key pair")
                 /\ UNCHANGED keyPairRemote
            ELSE /\ keyPairRemote' = TRUE
                 /\ createPc' = "env_select"
                 /\ UNCHANGED createErr
    /\ UNCHANGED <<localKeys, selectedKey, envChoice, instanceTypes,
                   instanceChoice, network, amiID, instanceID, publicIP,
                   lifecycleVars, sgVars,
                   fileOps, bgVars, imageVars, instanceState, postVars>>

\* runCreate: the environment selection screen
CrSelectEnvironment ==
    /\ createPc = "env_select"
    /\ \E choice \in {Cancelled, 0, 1} :
         /\ envChoice' = choice
         /\ IF choice = Cancelled
            THEN Abort("Operation cancelled")
            ELSE /\ createPc' = "pricing"
                 /\ UNCHANGED createErr
    /\ UNCHANGED <<keyPairRemote, localKeys, selectedKey, instanceTypes,
                   instanceChoice, network, amiID, instanceID, publicIP,
                   createCalls, lifecycleVars, sgVars,
                   fileOps, bgVars, imageVars, instanceState, postVars>>

ChanCap == 1          \* make(chan ..., 1)

\* getInstanceTypes: instanceSpecs, cut to the bound
instanceSpecs(isDev) == SubSeq(Catalog(isDev), 1, MaxTypes)

\* one entry of the log of background activity
BgEvent(who, ev, what) == [who |-> who, ev |-> ev, what |-> what]

\* getInstanceTypes: make the channels, start the pricing task, then block
\* in the select
CrFetchPricing ==
    /\ createPc = "pricing"
    /\ doneChan' = <<>>
    /\ errorChan' = <<>>
    /\ bgTask' = bgTask \cup {"pricing"}
    /\ bgLog' = Append(bgLog, BgEvent("main", "go", "pricing"))
    /\ priceIdx' = 1
    /\ priced' = <<>>
    /\ createPc' = "pricing_wait"
    /\ UNCHANGED <<keyPairRemote, localKeys, selectedKey, envChoice,
                   instanceTypes, instanceChoice, network, amiID, instanceID,
                   publicIP, createErr, createCalls, lifecycleVars, sgVars,
                   fileOps, imageVars, instanceState, postVars>>

\* the pricing task: GetInstancePricing for one entry of instanceSpecs;
\* an entry whose price cannot be fetched is logged and skipped
BgPriceNext ==
    /\ "pricing" \in bgTask
    /\ priceIdx <= Len(instanceSpecs(envChoice = 0))
    /\ \E isFailed \in BOOLEAN :
         /\ createCalls' = Append(createCalls,
                CrCallOn("GetProducts",
                         instanceSpecs(envChoice = 0)[priceIdx], isFailed))
         /\ priced' = IF isFailed THEN priced
                      ELSE Append(priced,
                                  instanceSpecs(envChoice = 0)[priceIdx])
    /\ priceIdx' = priceIdx + 1
    /\ UNCHANGED <<createPc, keyPairRemote, localKeys, selectedKey,
                   envChoice, instanceTypes, instanceChoice, network, amiID,
                   instanceID, publicIP, createErr, lifecycleVars, sgVars,
                   fileOps, bgTask, bgLog, doneChan, errorChan, imageVars,
                   instanceState, postVars>>

pricingResult_SilentOnEmpty(got) ==
    IF Len(got) = 0
    THEN [chan |-> "none", value |-> <<>>]
    ELSE [chan |-> "done", value |-> got]

\* the pricing task: the channel it sends on after the loop, and the value
pricingResult(got) ==
    IF Len(got) = 0
    THEN [chan |-> "errorChan",
          value |-> "failed to fetch pricing for any instance types"]
    ELSE [chan |-> "done", value |-> got]

\* the pricing task: the send that ends it; a send blocks while the
\* channel's buffer is full
BgPriceDeliver ==
    /\ "pricing" \in bgTask
    /\ priceIdx > Len(instanceSpecs(envChoice = 0))
    /\ CASE pricingResult(priced).chan = "errorChan" ->
              /\ Len(errorChan) < ChanCap
              /\ errorChan' = Append(errorChan, pricingResult(priced).value)
              /\ bgLog' = Append(bgLog, BgEvent("pricing", "send",
                                                "errorChan"))
              /\ UNCHANGED doneChan
         [] pricingResult(priced).chan = "done" ->
              /\ Len(doneChan) < ChanCap
              /\ doneChan' = Append(doneChan, pricingResult(priced).value)
              /\ bgLog' = Append(bgLog, BgEvent("pricing", "send", "done"))
              /\ UNCHANGED errorChan
         [] OTHER -> UNCHANGED <<doneChan, errorChan, bgLog>>
    /\ bgTask' = bgTask \ {"pricing"}
    /\ UNCHANGED <<createPc, keyPairRemote, localKeys, selectedKey,
                   envChoice, instanceTypes, instanceChoice, network, amiID,
                   instanceID, publicIP, createErr, createCalls,
                   lifecycleVars, sgVars, fileOps, priceIdx, priced,
                   imageVars, instanceState, postVars>>

\* getInstanceTypes: the select on done and errorChan, and runCreate's
\* check of the result
CrReceivePricing ==
    /\ createPc = "pricing_wait"
    /\ \/ /\ Len(doneChan) > 0
          /\ instanceTypes' = Head(doneChan)
          /\ doneChan' = Tail(doneChan)
          /\ bgLog' = Append(bgLog, BgEvent("main", "recv", "done"))
          /\ createPc' = "instance_select"
          /\ UNCHANGED <<errorChan, createErr>>
       \/ /\ Len(errorChan) > 0
          /\ Abort(Head(errorChan))
          /\ errorChan' = Tail(errorChan)
          /\ bgLog' = Append(bgLog, BgEvent("main", "recv", "errorChan"))
          /\ UNCHANGED <<doneChan, instanceTypes>>
    /\ UNCHANGED <<keyPairRemote, localKeys, selectedKey, envChoice,
                   instanceChoice, network, amiID, instanceID, publicIP,
                   createCalls, lifecycleVars, sgVars, fileOps, bgTask,
                   priceIdx, priced, imageVars, instanceState, postVars>>

\* runCreate: the instance type selection screen
CrSelectInstance ==
    /\ createPc = "instance_select"
    /\ \E choice \in {Cancelled} \cup (0..(Len(instanceTypes) - 1)) :
         /\ instanceChoice' = choice
         /\ IF choice = Cancelled
            THEN Abort("Operation cancelled")
            ELSE /\ createPc' = "vpc"
                 /\ UNCHANGED createErr
    /\ UNCHANGED <<keyPairRemote, localKeys, selectedKey, envChoice,
                   instanceTypes, network, amiID, instanceID, publicIP,
                   createCalls, lifecycleVars, sgVars,
                   fileOps, bgVars, imageVars, instanceState, postVars>>

CrDescribeVpcs_EmptyAsFound ==
    /\ createPc = "vpc"
    /\ \E outcome \in {"failed", "empty", "found"} :
         /\ createCalls' = Append(createCalls,
                CrCallOn("DescribeVpcs",
                         IF outcome = "empty" THEN "empty" ELSE "",
                         outcome = "failed"))
         /\ IF outcome = "failed"
            THEN /\ Abort("failed to describe VPCs")
                 /\ UNCHANGED network
            ELSE /\ network' = [network EXCEPT !.vpc = "vpc-default"]
                 /\ createPc' = "subnet"
                 /\ UNCHANGED createErr
    /\ UNCHANGED <<keyPairRemote, localKeys, selectedKey, envChoice,
                   instanceTypes, instanceChoice, amiID, instanceID,
                   publicIP, lifecycleVars, sgVars,
                   fileOps, bgVars, imageVars, instanceState, postVars>>

\* createInstance / getDefaultVPCAndSubnet: DescribeVpcs
CrDescribeVpcs ==
    /\ createPc = "vpc"
    /\ \E outcome \in {"failed", "empty", "found"} :
         /\ createCalls' = Append(createCalls,
                CrCallOn("DescribeVpcs",
                         IF outcome = "empty" THEN "empty" ELSE "",
                         outcome = "failed"))
         /\ CASE outcome = "failed" ->
                   /\ Abort("failed to describe VPCs")
                   /\ UNCHANGED network
              [] outcome = "empty" ->
                   /\ Abort("no default VPC found")
                   /\ UNCHANGED network
              [] outcome = "found" ->
                   /\ network' = [network EXCEPT !.vpc = "vpc-default"]
                   /\ createPc' = "subnet"
                   /\ UNCHANGED createErr
    /\ UNCHANGED <<keyPairRemote, localKeys, selectedKey, envChoice,
                   instanceTypes, instanceChoice, amiID, instanceID,
                   publicIP, lifecycleVars, sgVars,
                   fileOps, bgVars, imageVars, instanceState, postVars>>

\* getDefaultVPCAndSubnet: DescribeSubnets; on success createInstance
\* calls createOrGetSecurityGroup
CrDescribeSubnets ==
    /\ createPc = "subnet"
    /\ \E outcome \in {"failed", "empty", "found"} :
         /\ createCalls' = Append(createCalls,
                CrCallOn("DescribeSubnets",
                         IF outcome = "empty" THEN "empty" ELSE "",
                         outcome = "failed"))
         /\ CASE outcome = "failed" ->
                   /\ Abort("failed to describe subnets")
                   /\ UNCHANGED <<network, sgPc>>
              [] outcome = "empty" ->
                   /\ Abort("no default subnet found")
                   /\ UNCHANGED <<network, sgPc>>
              [] outcome = "found" ->
                   /\ network' = [network EXCEPT !.subnet = "subnet-default"]
                   /\ createPc' = "sg"
                   /\ sgPc' = [sgPc EXCEPT ![1] = "describe"]
                   /\ UNCHANGED createErr
    /\ UNCHANGED <<keyPairRemote, localKeys, selectedKey, envChoice,
                   instanceTypes, instanceChoice, amiID, instanceID,
                   publicIP, lifecycleVars, sgGroupId, sgRules, sgID,
                   needsRules, permissions, sgReturns, sgCalls,
                   fileOps, bgVars, imageVars, instanceState, postVars>>

CrAfterSecurityGroup_IgnoreError ==
    /\ createPc = "sg"
    /\ sgPc[1] = "done"
    /\ createPc' = "ami"
    /\ patternIdx' = 1
    /\ UNCHANGED <<keyPairRemote, localKeys, selectedKey, envChoice,
                   instanceTypes, instanceChoice, network, amiID, instanceID,
                   publicIP, createErr, createCalls, lifecycleVars, sgVars,
                   fileOps, bgVars, images, instanceState, postVars>>

\* createInstance: the result of createOrGetSecurityGroup
CrAfterSecurityGroup ==
    /\ createPc = "sg"
    /\ sgPc[1] = "done"
    /\ IF sgReturns[1][Len(sgReturns[1])].err # NoError
       THEN /\ Abort(sgReturns[1][Len(sgReturns[1])].err)
            /\ UNCHANGED patternIdx
       ELSE /\ createPc' = "ami"
            /\ patternIdx' = 1
            /\ UNCHANGED createErr
    /\ UNCHANGED <<keyPairRemote, localKeys, selectedKey, envChoice,
                   instanceTypes, instanceChoice, network, amiID, instanceID,
                   publicIP, createCalls, lifecycleVars, sgVars,
                   fileOps, bgVars, images, instanceState, postVars>>

\* getLatestUbuntuAMI: one round of the loop over patterns, and the return
\* after the last round; a query that fails is skipped
CrResolveImage ==
    /\ createPc = "ami"
    /\ patternIdx <= Len(Patterns)
    /\ \E isFailed \in BOOLEAN :
         LET found == DescribeImages(images, imageQuery(Patterns[patternIdx]))
         IN
         /\ createCalls' = Append(createCalls,
                CrCallOn("DescribeImages", imageQuery(Patterns[patternIdx]),
                         isFailed))
         /\ IF ~isFailed /\ Len(found) > 0
            THEN /\ amiID' = latestImage(found[1], Tail(found)).id
                 /\ createPc' = "launch"
                 /\ UNCHANGED <<createErr, patternIdx>>
            ELSE IF patternIdx < Len(Patterns)
            THEN /\ patternIdx' = patternIdx + 1
                 /\ UNCHANGED <<amiID, createPc, createErr>>
            ELSE /\ Abort("no Ubuntu AMI found")
                 /\ patternIdx' = patternIdx + 1
                 /\ UNCHANGED amiID
    /\ UNCHANGED <<keyPairRemote, localKeys, selectedKey, envChoice,
                   instanceTypes, instanceChoice, network, instanceID,
                   publicIP, lifecycleVars, sgVars,
                   fileOps, bgVars, images, instanceState, postVars>>

\* the shapes of a successful response that holds a list: the documented
\* one, and for any provider also the empty list
ListShapes == {"one"} \cup (IF responses = "any" THEN {"empty"} ELSE {})

\* element [0] of an empty list: the index is out of range and the
\* program panics
firstOfEmpty ==
    /\ createPc' = "crashed"
    /\ UNCHANGED createErr

\* createInstance: RunInstances
CrRunInstances ==
    /\ createPc = "launch"
    /\ \E outcome \in {"failed"} \cup ListShapes :
         /\ createCalls' = Append(createCalls,
                CrCallOn("RunInstances",
                         IF outcome = "empty" THEN "empty" ELSE "",
                         outcome = "failed"))
         /\ CASE outcome = "failed" ->
                   /\ Abort("failed to create instance")
                   /\ UNCHANGED <<instanceID, instanceState>>
              [] outcome = "empty" ->
                   /\ firstOfEmpty
                   /\ UNCHANGED <<instanceID, instanceState>>
              [] outcome = "one" ->
                   /\ instanceID' = "i-new"
                   /\ instanceState' = "pending"
                   /\ createPc' = "wait"
                   /\ UNCHANGED createErr
    /\ UNCHANGED <<keyPairRemote, localKeys, selectedKey, envChoice,
                   instanceTypes, instanceChoice, network, amiID, publicIP,
                   lifecycleVars, sgVars,
                   fileOps, bgVars, imageVars, postVars>>

\* createInstance: make the channel, start the waiter task and the
\* spinner program, then block on the receive
CrStartWaiter ==
    /\ createPc = "wait"
    /\ doneChan' = <<>>
    /\ bgTask' = bgTask \cup {"waiter"}
    /\ bgLog' = Append(bgLog, BgEvent("main", "go", "waiter"))
    /\ loading' = Program(NewLoadingModel, TRUE, TRUE, 0)
    /\ createPc' = "wait_recv"
    /\ UNCHANGED <<keyPairRemote, localKeys, selectedKey, envChoice,
                   instanceTypes, instanceChoice, network, amiID, instanceID,
                   publicIP, createErr, createCalls, lifecycleVars, sgVars,
                   fileOps, priceIdx, priced, errorChan, imageVars,
                   instanceState, confirmResult, installErr, sshOps,
                   authorizedKeys,
                   fleetVars, keyModel>>

\* the waiter task: waiter.Wait with its five minute limit, then the send
\* of its result on done
BgWait ==
    /\ "waiter" \in bgTask
    /\ Len(doneChan) < ChanCap
    /\ bgLog' = Append(bgLog, BgEvent("waiter", "send", "done"))
    /\ \E outcome \in {"running", "timeout", "failed"} :
         /\ createCalls' = Append(createCalls,
                CrCallOn("WaitInstanceRunning", outcome,
                         outcome # "running"))
         /\ instanceState' = IF outcome = "running" THEN "running"
                             ELSE instanceState
         /\ doneChan' = Append(doneChan, IF outcome = "running" THEN NoError
                                         ELSE outcome)
    /\ bgTask' = bgTask \ {"waiter"}
    /\ UNCHANGED <<createPc, keyPairRemote, localKeys, selectedKey,
                   envChoice, instanceTypes, instanceChoice, network, amiID,
                   instanceID, publicIP, createErr, lifecycleVars, sgVars,
                   fileOps, priceIdx, priced, errorChan, imageVars,
                   postVars>>

waitFailed_Terminate ==
    /\ Abort("failed waiting for instance to be running")
    /\ createCalls' = Append(createCalls, CrCall("TerminateInstances", FALSE))
    /\ instanceState' = "shutting-down"

\* createInstance: the wait returned an error
waitFailed ==
    /\ Abort("failed waiting for instance to be running")
    /\ UNCHANGED <<createCalls, instanceState>>

\* createInstance: the receive of the waiter's result, then p.Quit()
CrWaitRunning ==
    /\ createPc = "wait_recv"
    /\ Len(doneChan) > 0
    /\ doneChan' = Tail(doneChan)
    /\ bgLog' = Append(bgLog, BgEvent("main", "recv", "done"))
    /\ IF Head(doneChan) # NoError
       THEN waitFailed
       ELSE /\ createPc' = "refetch"
            /\ UNCHANGED <<createErr, createCalls, instanceState>>
    /\ loading' = [loading EXCEPT !.running = FALSE, !.ticking = FALSE]
    /\ UNCHANGED <<keyPairRemote, localKeys, selectedKey, envChoice,
                   instanceTypes, instanceChoice, network, amiID, instanceID,
                   publicIP, lifecycleVars, sgVars,
                   fileOps, bgTask, priceIdx, priced, errorChan, imageVars,
                   confirmResult, installErr, sshOps, authorizedKeys,
                   fleetVars, keyModel>>

\* a nil PublicIpAddress: the provider assigned no public address
NilAddress == "<nil>"

publicIPOf_Raw(address) == address

\* createInstance: publicIP, the empty string unless an address is set
publicIPOf(address) == IF address # NilAddress THEN address ELSE ""

\* createInstance: the re-fetch of the instance and the returned record
CrRefetch ==
    /\ createPc = "refetch"
    /\ \E outcome \in {"failed"} \cup ListShapes,
          address \in {NilAddress, "203.0.113.7"} :
         /\ outcome # "one" => address = NilAddress
         /\ createCalls' = Append(createCalls,
                CrCallOn("DescribeInstances",
                         IF outcome = "empty" THEN "empty"
                         ELSE IF outcome = "one" THEN address ELSE "",
                         outcome = "failed"))
         /\ CASE outcome = "failed" ->
                   /\ Abort("failed to describe instance")
                   /\ UNCHANGED publicIP
              [] outcome = "empty" ->
                   /\ firstOfEmpty
                   /\ UNCHANGED publicIP
              [] outcome = "one" ->
                   /\ publicIP' = publicIPOf(address)
                   /\ createPc' = "created"
                   /\ UNCHANGED createErr
    /\ UNCHANGED <<keyPairRemote, localKeys, selectedKey, envChoice,
                   instanceTypes, instanceChoice, network, amiID, instanceID,
                   lifecycleVars, sgVars,
                   fileOps, bgVars, imageVars, instanceState, postVars>>

\* the keys the user can press at the prompt; "x" is any other key
Keys == {"ctrl+c", "q", "left", "h", "right", "l", "enter", " ",
         "y", "Y", "n", "N", "x"}

confirmUpdate_EnterIsYes(m, key) ==
    CASE key \in {"ctrl+c", "q"} -> [model |-> m, quit |-> TRUE]
      [] key \in {"left", "h"} ->
            [model |-> [m EXCEPT !.choice = 0, !.selected = TRUE],
             quit |-> FALSE]
      [] key \in {"right", "l"} ->
            [model |-> [m EXCEPT !.choice = 1, !.selected = FALSE],
             quit |-> FALSE]
      [] key \in {"enter", " ", "y", "Y"} ->
            [model |-> [choice |-> 0, selected |-> TRUE, answered |-> TRUE],
             quit |-> TRUE]
      [] key \in {"n", "N"} ->
            [model |-> [choice |-> 1, selected |-> FALSE, answered |-> TRUE],
             quit |-> TRUE]
      [] OTHER -> [model |-> m, quit |-> FALSE]

\* ConfirmationModel.Update for a key message: the new model, and whether
\* the command returned is tea.Quit
confirmUpdate(m, key) ==
    CASE key \in {"ctrl+c", "q"} -> [model |-> m, quit |-> TRUE]
      [] key \in {"left", "h"} ->
            [model |-> [m EXCEPT !.choice = 0, !.selected = TRUE],
             quit |-> FALSE]
      [] key \in {"right", "l"} ->
            [model |-> [m EXCEPT !.choice = 1, !.selected = FALSE],
             quit |-> FALSE]
      [] key \in {"enter", " "} ->
            [model |-> [m EXCEPT !.answered = TRUE], quit |-> TRUE]
      [] key \in {"y", "Y"} ->
            [model |-> [choice |-> 0, selected |-> TRUE, answered |-> TRUE],
             quit |-> TRUE]
      [] key \in {"n", "N"} ->
            [model |-> [choice |-> 1, selected |-> FALSE, answered |-> TRUE],
             quit |-> TRUE]
      [] OTHER -> [model |-> m, quit |-> FALSE]

\* ConfirmationModel.Selected and ConfirmationModel.Answered
Selected(m) == IF m.answered THEN m.selected ELSE FALSE

Answered(m) == m.answered

\* runCreate: the confirmation prompt after the instance details, one key
\* at a time; when the prompt quits runCreate looks at Answered and
\* Selected
CrConfirm ==
    /\ createPc = "created"
    /\ \E key \in Keys :
         LET u == confirmUpdate(confirmResult, key) IN
         /\ confirmResult' = u.model
         /\ createPc' = IF ~u.quit THEN "created"
                        ELSE IF ~Answered(u.model) THEN "finished"
                        ELSE IF Selected(u.model) THEN "install"
                        ELSE "finished"
    /\ UNCHANGED <<keyPairRemote, localKeys, selectedKey, envChoice,
                   instanceTypes, instanceChoice, network, amiID, instanceID,
                   publicIP, createErr, createCalls, lifecycleVars, sgVars,
                   fileOps, bgVars, imageVars, instanceState, installErr,
                   sshOps, authorizedKeys, loading,
                   fleetVars, keyModel>>

installFailed_Unwind(e) ==
    /\ installErr' = e
    /\ createCalls' = Append(createCalls, CrCall("TerminateInstances", FALSE))
    /\ instanceState' = "shutting-down"

\* runCreate: installClouddleyKey returned an error, which is logged and
\* printed
installFailed(e) ==
    /\ installErr' = e
    /\ UNCHANGED <<createCalls, instanceState>>

\* the word the install script looks for, and the line it appends
Marker == "clouddley-triggr-public-key"

sshPublicKey == <<"ssh-rsa", "AAAAB3NzaC1yc2EAAAADAQABAAACAQ", "\"", Marker,
                  "\"">>

\* the file does not exist
Missing == [exists |-> FALSE, lines |-> <<>>]

\* strings.Contains, and the match of a fixed pattern inside a line
Contains(s, sub) ==
    \E i \in 0..(Len(s) - Len(sub)) : SubSeq(s, i + 1, i + Len(sub)) = sub

\* grep -q pattern file 2>/dev/null: some line of the file holds the
\* pattern; a missing file matches nothing
grepQuiet(file, pattern) ==
    /\ file.exists
    /\ \E i \in 1..Len(file.lines) : Contains(file.lines[i], <<pattern>>)

installScript_AlwaysAppend(file, appendOk) ==
    IF ~appendOk THEN file
    ELSE File(Append(file.lines, sshPublicKey))

\* the remote install script: the file it leaves; echo >> creates the
\* file when it is missing, and may fail to write
installScript(file, appendOk) ==
    IF grepQuiet(file, Marker) THEN file
    ELSE IF ~appendOk THEN file
    ELSE File(Append(file.lines, sshPublicKey))

\* the output lines of the read-back command, as characters
KeyFound == <<"K", "E", "Y", "_", "F", "O", "U", "N", "D">>
KeyNotFound == <<"K", "E", "Y", "_", "N", "O", "T", "_", "F", "O", "U", "N",
                 "D">>

\* what ssh writes to standard error before the command's output
SshWarning == <<"W", "a", "r", "n", "i", "n", "g", "\n">>

\* the read-back command: its combined output
verifyScript(file) ==
    SshWarning \o (IF grepQuiet(file, Marker) THEN KeyFound ELSE KeyNotFound)
               \o <<"\n">>

verifyResult_ContainsFound(verifyOutput) ==
    IF ~Contains(verifyOutput, <<"F", "O", "U", "N", "D">>)
    THEN "key installation verification failed"
    ELSE NoError

\* installClouddleyKey: the check of the read-back output
verifyResult(verifyOutput) ==
    IF ~Contains(verifyOutput, KeyFound)
    THEN "key installation verification failed"
    ELSE NoError

\* one entry of the log of ssh commands: the command, whether it returned
\* without error, the file before and after, and its output
SshOp(cmd, ok, before, after, out) ==
    [cmd |-> cmd, ok |-> ok, before |-> before, after |-> after,
     output |-> out]

\* runCreate: installClouddleyKey, the install command and the read-back.
\* The connection of the install command is refused, or drops after the
\* script has run, or holds
CrInstallKey ==
    /\ createPc = "install"
    /\ \E conn \in {"refused", "dropped", "ok"}, appendOk \in BOOLEAN,
          verifyConn \in {"refused", "ok"} :
         LET after == IF conn = "refused" THEN authorizedKeys
                      ELSE installScript(authorizedKeys, appendOk)
             installOp == SshOp("install", conn = "ok", authorizedKeys,
                                after, <<>>)
         IN
         /\ authorizedKeys' = after
         /\ IF conn # "ok"
            THEN /\ sshOps' = Append(sshOps, installOp)
                 /\ installFailed("SSH command failed")
            ELSE IF verifyConn # "ok"
            THEN /\ sshOps' = sshOps \o
                        <<installOp, SshOp("verify", FALSE, after, after,
                                           SshWarning)>>
                 /\ installFailed("verification command failed")
            ELSE /\ sshOps' = sshOps \o
                        <<installOp, SshOp("verify", TRUE, after, after,
                                           verifyScript(after))>>
                 /\ IF verifyResult(verifyScript(after)) # NoError
                    THEN installFailed(verifyResult(verifyScript(after)))
                    ELSE /\ installErr' = NoError
                         /\ UNCHANGED <<createCalls, instanceState>>
    /\ createPc' = "finished"
    /\ UNCHANGED <<keyPairRemote, localKeys, selectedKey, envChoice,
                   instanceTypes, instanceChoice, network, amiID, instanceID,
                   publicIP, createErr, lifecycleVars, sgVars,
                   fileOps, bgVars, imageVars, confirmResult, loading,
                   fleetVars, keyModel>>

MaxInstalls == 3     \* installs run against one host

\* installClouddleyKey is run once more against the same host
CrInstallAgain ==
    /\ createPc = "finished"
    /\ Cardinality({i \in 1..Len(sshOps) : sshOps[i].cmd = "install"})
           < MaxInstalls
    /\ createPc' = "install"
    /\ UNCHANGED <<keyPairRemote, localKeys, selectedKey, envChoice,
                   instanceTypes, instanceChoice, network, amiID, instanceID,
                   publicIP, createErr, createCalls, lifecycleVars, sgVars,
                   fileOps, bgVars, imageVars, instanceState, postVars>>

\* provider catalogues for the create flow: no image, only 24.04, only
\* 22.04 in two versions, and a 24.04 image of another owner before 22.04
CreateCatalogues ==
    {<<>>,
     WithIds(<<[name |-> Patterns[1], owner |-> TrustedOwner,
                date |-> <<1, 0>>]>>),
     WithIds(<<[name |-> Patterns[2], owner |-> TrustedOwner,
                date |-> <<0, 9>>],
               [name |-> Patterns[2], owner |-> TrustedOwner,
                date |-> <<1, 5>>]>>),
     WithIds(<<[name |-> Patterns[1], owner |-> OtherOwner,
                date |-> <<1, 5>>],
               [name |-> Patterns[2], owner |-> TrustedOwner,
                date |-> <<1, 0>>]>>)}

\* the group is absent, or exists with some of the baseline rules
SgProviderInitBaseline ==
    \/ /\ sgGroupId = NoGroup
       /\ sgRules = {}
    \/ /\ sgGroupId = "sg-existing"
       /\ sgRules \in SUBSET {BaselineRule(22), BaselineRule(80),
                              BaselineRule(443)}

CreateStart ==
    /\ LifecycleIdle
    /\ SgProviderInitBaseline
    /\ sgPc = [p \in {1, 2} |-> "idle"]
    /\ sgID = [p \in {1, 2} |-> ""]
    /\ needsRules = [p \in {1, 2} |-> FALSE]
    /\ permissions = [p \in {1, 2} |-> <<>>]
    /\ sgReturns = [p \in {1, 2} |-> <<>>]
    /\ sgCalls = <<>>
    /\ createPc = "credentials"
    /\ keyPairRemote \in BOOLEAN
    /\ localKeys = <<>>
    /\ selectedKey = NoKey
    /\ envChoice = -1
    /\ instanceTypes = <<>>
    /\ instanceChoice = -1
    /\ network = NoNetwork
    /\ amiID = ""
    /\ instanceID = ""
    /\ publicIP = ""
    /\ createErr = NoError
    /\ createCalls = <<>>
    /\ fileOps = <<>>
    /\ bgTask = NoTask
    /\ bgLog = <<>>
    /\ priceIdx = 0
    /\ priced = <<>>
    /\ doneChan = <<>>
    /\ errorChan = <<>>
    /\ images \in CreateCatalogues
    /\ patternIdx = 0
    /\ instanceState = Absent
    /\ confirmResult = NewConfirmationModel
    /\ installErr = NoError
    /\ sshOps = <<>>
    /\ authorizedKeys = FreshHostFile
    /\ loading = NoProgram
    /\ FleetIdle
    /\ keyModel = NewSSHKeySelectionModel

InitCreate ==
    /\ CreateStart
    /\ responses = "documented"

\* the same, with a provider that may answer with any value the
\* response types can hold
InitCreateAny ==
    /\ CreateStart
    /\ responses = "any"

NextCreate ==
    \/ CrValidateCredentials
    \/ CrCheckKeyPair
    \/ CrCheckLocalKeys
    \/ CrSelectKey
    \/ CrReadKey
    \/ CrImportKey
    \/ CrSelectEnvironment
    \/ CrFetchPricing
    \/ BgPriceNext
    \/ BgPriceDeliver
    \/ CrReceivePricing
    \/ CrSelectInstance
    \/ CrDescribeVpcs
    \/ CrDescribeSubnets
    \/ SgDescribeByName(1)
    \/ SgCreate(1)
    \/ SgReread(1)
    \/ SgAuthorize(1)
    \/ CrAfterSecurityGroup
    \/ CrResolveImage
    \/ CrRunInstances
    \/ CrStartWaiter
    \/ BgWait
    \/ CrWaitRunning
    \/ CrRefetch
    \/ CrConfirm
    \/ CrInstallKey

SpecCreate == InitCreate /\ [][NextCreate]_vars

SpecCreateAny == InitCreateAny /\ [][NextCreate]_vars

MaxLines == 2        \* most lines the host's file holds at the start

\* lines a host's file may hold: the user's key, a key line this tool
\* added before, and another line that holds the marker word
LineUniverse ==
    {UserKeyLine, sshPublicKey, <<"#", "old", Marker, "entry">>}

HostFiles ==
    {Missing} \cup
    {File(lines) : lines \in UNION {[1..n -> LineUniverse] : n \in 0..MaxLines}}

\* installClouddleyKey called on its own, for every file the host may hold
InitInstall ==
    /\ LifecycleIdle
    /\ responses = "documented"
    /\ SgIdle
    /\ createPc = "install"
    /\ keyPairRemote = TRUE
    /\ localKeys = <<>>
    /\ selectedKey = NoKey
    /\ envChoice = -1
    /\ instanceTypes = <<>>
    /\ instanceChoice = -1
    /\ network = NoNetwork
    /\ amiID = ""
    /\ instanceID = "i-new"
    /\ publicIP = "203.0.113.7"
    /\ createErr = NoError
    /\ createCalls = <<>>
    /\ fileOps = <<>>
    /\ bgTask = NoTask
    /\ bgLog = <<>>
    /\ priceIdx = 0
    /\ priced = <<>>
    /\ doneChan = <<>>
    /\ errorChan = <<>>
    /\ images = <<>>
    /\ patternIdx = 0
    /\ instanceState = "running"
    /\ confirmResult = [choice |-> 0, selected |-> TRUE, answered |-> TRUE]
    /\ installErr = NoError
    /\ sshOps = <<>>
    /\ authorizedKeys \in HostFiles
    /\ loading = NoProgram
    /\ FleetIdle
    /\ keyModel = NewSSHKeySelectionModel

NextInstall ==
    \/ CrInstallKey
    \/ CrInstallAgain

SpecInstall == InitInstall /\ [][NextInstall]_vars

\* what the spinner program does with the result of Update: a quit
\* command ends it, a tick command makes the next tick due
Delivered(r, keys) ==
    Program(r.model, r.cmd # "quit",
            r.cmd # "quit" /\ (loading.ticking \/ r.cmd = "tick"), keys)

\* the spinner program delivers the tick that is due
LoadTick ==
    /\ loading.running
    /\ loading.ticking
    /\ LET r == loadingUpdate(loading.model, TickMsg)
       IN  loading' = Program(r.model, r.cmd # "quit",
                              r.cmd = "tick", loading.keys)
    /\ UNCHANGED <<lifecycleVars, sgVars, createPc, keyPairRemote,
                   localKeys, selectedKey, envChoice, instanceTypes,
                   instanceChoice, network, amiID, instanceID, publicIP,
                   createErr, createCalls, fileOps, bgVars, imageVars,
                   instanceState, confirmResult, installErr, sshOps,
                   authorizedKeys,
                   fleetVars, keyModel>>

MaxKeys == 2         \* keys pressed during one wait

\* the user presses a key while the spinner program runs
LoadKey ==
    /\ loading.running
    /\ loading.keys < MaxKeys
    /\ \E key \in Keys :
         loading' = Delivered(loadingUpdate(loading.model, key),
                              loading.keys + 1)
    /\ UNCHANGED <<lifecycleVars, sgVars, createPc, keyPairRemote,
                   localKeys, selectedKey, envChoice, instanceTypes,
                   instanceChoice, network, amiID, instanceID, publicIP,
                   createErr, createCalls, fileOps, bgVars, imageVars,
                   instanceState, confirmResult, installErr, sshOps,
                   authorizedKeys,
                   fleetVars, keyModel>>

\* createInstance right after the launch, at the wait
InitWait ==
    /\ LifecycleIdle
    /\ responses = "documented"
    /\ SgIdle
    /\ createPc = "wait"
    /\ keyPairRemote = TRUE
    /\ localKeys = <<>>
    /\ selectedKey = NoKey
    /\ envChoice = -1
    /\ instanceTypes = <<>>
    /\ instanceChoice = -1
    /\ network = [vpc |-> "vpc-default", subnet |-> "subnet-default"]
    /\ amiID = "ami-1"
    /\ instanceID = "i-new"
    /\ publicIP = ""
    /\ createErr = NoError
    /\ createCalls = <<CrCall("RunInstances", FALSE)>>
    /\ fileOps = <<>>
    /\ bgTask = NoTask
    /\ bgLog = <<>>
    /\ priceIdx = 0
    /\ priced = <<>>
    /\ doneChan = <<>>
    /\ errorChan = <<>>
    /\ images = <<>>
    /\ patternIdx = 0
    /\ instanceState = "pending"
    /\ confirmResult = NewConfirmationModel
    /\ installErr = NoError
    /\ sshOps = <<>>
    /\ authorizedKeys = FreshHostFile
    /\ loading = NoProgram
    /\ FleetIdle
    /\ keyModel = NewSSHKeySelectionModel

NextWait ==
    \/ CrStartWaiter
    \/ BgWait
    \/ CrWaitRunning
    \/ LoadTick
    \/ LoadKey

SpecWait == InitWait /\ [][NextWait]_vars

\* ------------------------------------------------------------------------
\* The instances of the account: launches by create, and the list command
\* ------------------------------------------------------------------------
MaxClock == 2        \* seconds the clock advances
MaxFleet == 2        \* instances in the account

RECURSIVE Decimal(_)
\* the %d verb: the decimal digits of a number that is not negative
Decimal(n) ==
    LET digit(d) == <<"0", "1", "2", "3", "4", "5", "6", "7", "8", "9">>[d + 1]
    IN  IF n < 10 THEN <<digit(n)>>
        ELSE Append(Decimal(n \div 10), digit(n % 10))

\* fmt.Sprintf("clouddley-vm-%d", time.Now().Unix())
instanceName(t) == <<"clouddley-vm-">> \o Decimal(t)

Tag(key, value) == [key |-> key, value |-> value]

CreatedByClouddley == Tag("CreatedBy", <<"Clouddley">>)

\* the tags create gives to the instance it launches
launchTags(name) == <<Tag("Name", name), CreatedByClouddley>>

\* the tag lists of instances launched or tagged by other means
ForeignTags ==
    {<<>>,
     <<CreatedByClouddley>>,
     <<Tag("Name", <<>>), CreatedByClouddley>>,
     <<CreatedByClouddley, Tag("Name", <<"web">>)>>,
     <<Tag("Name", <<"web">>)>>}

FleetStates == {"pending", "running", "stopped", "shutting-down",
                "terminated"}

\* the provider gives every instance its own id
NextId == <<"i-">> \o Decimal(Len(fleet) + 1)

OtherVars ==
    <<lifecycleVars, sgVars, createPc, keyPairRemote, localKeys,
      selectedKey, envChoice, instanceTypes, instanceChoice, network, amiID,
      instanceID, publicIP, createErr, createCalls, fileOps, bgVars,
      imageVars, instanceState, confirmResult, installErr, sshOps,
      authorizedKeys, loading, keyModel>>

\* one second passes
ClockTick ==
    /\ ~listed.ran
    /\ now < MaxClock
    /\ now' = now + 1
    /\ UNCHANGED <<fleet, listed, OtherVars>>

\* a run of create, from the name of the instance to its launch
FleetLaunch ==
    /\ ~listed.ran
    /\ Len(fleet) < MaxFleet
    /\ fleet' = Append(fleet,
           [id |-> NextId,
            tags |-> launchTags(instanceName(now)),
            state |-> "pending", byCreate |-> TRUE])
    /\ UNCHANGED <<now, listed, OtherVars>>

\* an instance is launched by other means
ForeignLaunch ==
    /\ ~listed.ran
    /\ Len(fleet) < MaxFleet
    /\ \E tags \in ForeignTags :
         fleet' = Append(fleet, [id |-> NextId, tags |-> tags,
                                 state |-> "pending", byCreate |-> FALSE])
    /\ UNCHANGED <<now, listed, OtherVars>>

\* an instance changes its state; terminated is final
FleetProgress ==
    /\ ~listed.ran
    /\ \E i \in 1..Len(fleet), state \in FleetStates \ {"pending"} :
         /\ fleet[i].state # "terminated"
         /\ fleet[i].state # state
         /\ fleet' = [fleet EXCEPT ![i].state = state]
    /\ UNCHANGED <<now, listed, OtherVars>>

\* DescribeInstances with the filter tag:CreatedBy=Clouddley
describeByTag(all) ==
    SelectSeq(all, LAMBDA inst :
        \E k \in 1..Len(inst.tags) :
            inst.tags[k] = CreatedByClouddley)

\* listCloudleyInstances: the value of the first Name tag, or the empty
\* string
nameOf(inst) ==
    LET named == {k \in 1..Len(inst.tags) : inst.tags[k].key = "Name"}
    IN  IF named = {} THEN <<>>
        ELSE inst.tags[CHOOSE k \in named : \A j \in named : k <= j].value

Row(inst) == [InstanceID |-> inst.id, Name |-> nameOf(inst),
              State |-> inst.state]

RECURSIVE rowsOf_KeepTerminated(_)
rowsOf_KeepTerminated(reported) ==
    IF reported = <<>> THEN <<>>
    ELSE <<Row(Head(reported))>> \o rowsOf_KeepTerminated(Tail(reported))

RECURSIVE rowsOf(_)
\* listCloudleyInstances: one row for each reported instance that is not
\* terminated, in the order of the report
rowsOf(reported) ==
    IF reported = <<>> THEN <<>>
    ELSE IF Head(reported).state = "terminated" THEN rowsOf(Tail(reported))
    ELSE <<Row(Head(reported))>> \o rowsOf(Tail(reported))

\* runList: the credential check, the region, the describe call and the
\* table
RunList ==
    /\ ~listed.ran
    /\ \E outcome \in {"credentials", "config", "describe", "ok"} :
         listed' =
             CASE outcome = "credentials" ->
                    [err |-> "Error: AWS credentials invalid or AWS_PROFILE not set",
                     rows |-> <<>>, ran |-> TRUE]
               [] outcome = "config" ->
                    [err |-> "Error getting AWS config",
                     rows |-> <<>>, ran |-> TRUE]
               [] outcome = "describe" ->
                    [err |-> "Error listing instances: failed to describe instances",
                     rows |-> <<>>, ran |-> TRUE]
               [] outcome = "ok" ->
                    [err |-> NoError, rows |-> rowsOf(describeByTag(fleet)),
                     ran |-> TRUE]
    /\ UNCHANGED <<now, fleet, OtherVars>>

\* the account, looked at by one list command at any moment
InitFleet ==
    /\ LifecycleIdle
    /\ responses = "documented"
    /\ SgIdle
    /\ CreateIdle

NextFleet ==
    \/ ClockTick
    \/ FleetLaunch
    \/ ForeignLaunch
    \/ FleetProgress
    \/ RunList

SpecFleet == InitFleet /\ [][NextFleet]_vars

MaxImages == 3       \* most images the provider holds

\* every list of at most MaxImages images the provider can hold
AllCatalogues ==
    {WithIds(imgs) : imgs \in UNION {[1..n -> ImageUniverse] :
                                        n \in 0..MaxImages}}

\* getLatestUbuntuAMI called on its own, for every provider catalogue
InitImage ==
    /\ LifecycleIdle
    /\ responses = "documented"
    /\ SgIdle
    /\ createPc = "ami"
    /\ keyPairRemote = TRUE
    /\ localKeys = <<>>
    /\ selectedKey = NoKey
    /\ envChoice = -1
    /\ instanceTypes = <<>>
    /\ instanceChoice = -1
    /\ network = NoNetwork
    /\ amiID = ""
    /\ instanceID = ""
    /\ publicIP = ""
    /\ createErr = NoError
    /\ createCalls = <<>>
    /\ fileOps = <<>>
    /\ bgTask = NoTask
    /\ bgLog = <<>>
    /\ priceIdx = 0
    /\ priced = <<>>
    /\ doneChan = <<>>
    /\ errorChan = <<>>
    /\ images \in AllCatalogues
    /\ patternIdx = 1
    /\ instanceState = Absent
    /\ confirmResult = NewConfirmationModel
    /\ installErr = NoError
    /\ sshOps = <<>>
    /\ authorizedKeys = FreshHostFile
    /\ loading = NoProgram
    /\ FleetIdle
    /\ keyModel = NewSSHKeySelectionModel

NextImage == CrResolveImage

SpecImage == InitImage /\ [][NextImage]_vars

\* the scheduler runs a task that can take a step, and a call in a task
\* returns (the waiter within its five minutes); the screens get no
\* fairness: the user may never answer
SpecCreateFair ==
    /\ SpecCreate
    /\ WF_vars(BgPriceNext)
    /\ WF_vars(BgPriceDeliver)
    /\ WF_vars(CrReceivePricing)
    /\ WF_vars(BgWait)
    /\ WF_vars(CrWaitRunning)

\* ------------------------------------------------------------------------
\* Properties of the lifecycle commands
\* ------------------------------------------------------------------------
TransitionAPIs == {"StartInstances", "StopInstances", "TerminateInstances"}

\* the provider calls of the per-target step at position i, in order
CallsAt(i) == SelectSeq(calls, LAMBDA c : c.pos = i)

\* the step at position i fetched a state (describe succeeded, non-empty)
FetchedAt(i) ==
    /\ Len(CallsAt(i)) >= 1
    /\ CallsAt(i)[1].api = "DescribeInstances"
    /\ ~CallsAt(i)[1].failed
    /\ Len(CallsAt(i)[1].reservations) > 0
    /\ Len(CallsAt(i)[1].reservations[1]) > 0

StateAt(i) == CallsAt(i)[1].reservations[1][1]

\* the step at position i got an empty describe result
NotFoundAt(i) ==
    /\ Len(CallsAt(i)) >= 1
    /\ CallsAt(i)[1].api = "DescribeInstances"
    /\ ~CallsAt(i)[1].failed
    /\ \/ Len(CallsAt(i)[1].reservations) = 0
       \/ Len(CallsAt(i)[1].reservations[1]) = 0

Issue == "issue"

\* the transition table of the three operations, written out
TransitionTable ==
    [start |->
        [pending     |-> "instance is already starting",
         running     |-> "instance is already running",
         stopping    |-> Issue,
         stopped     |-> Issue,
         terminating |-> "instance is terminated or being terminated",
         terminated  |-> "instance is terminated or being terminated"],
     stop |->
        [pending     |-> Issue,
         running     |-> Issue,
         stopping    |-> "instance is already being stopped",
         stopped     |-> "instance is already stopped",
         terminating |-> "instance is terminated or being terminated",
         terminated  |-> "instance is terminated or being terminated"],
     terminate |->
        [pending     |-> Issue,
         running     |-> Issue,
         stopping    |-> Issue,
         stopped     |-> Issue,
         terminating |-> "instance is already being terminated",
         terminated  |-> "instance is already terminated"]]

ApiOf == [start |-> "StartInstances", stop |-> "StopInstances",
          terminate |-> "TerminateInstances"]

\* C1: for every lifecycle state S and operation, the per-target step on an
\* instance fetched in state S has the one outcome the table fixes for
\* (S, op): either exactly one transition call of that operation is issued
\* (and the target is reported successful when the provider accepts it), or
\* no call is issued and the target is rejected with the table's reason.
Thm_C1_TransitionTable ==
    \A i \in 1..Len(output) :
        (FetchedAt(i) /\ StateAt(i) \in LifecycleStates) =>
            LET expected == TransitionTable[op][StateAt(i)]
                cs == CallsAt(i)
            IN  IF expected = Issue
                THEN /\ Len(cs) = 2
                     /\ cs[2].api = ApiOf[op]
                     /\ cs[2].id = instanceIDs[i]
                     /\ (~cs[2].failed => output[i].kind = "success")
                ELSE /\ Len(cs) = 1
                     /\ output[i].kind = "error"
                     /\ output[i].msg = expected

\* start on an instance fetched in state stopping issued the call and
\* was reported successful; start on a pending one was rejected
Wit_C1_StartFromStopping ==
    /\ op = "start"
    /\ pc = "done"
    /\ Len(output) = 2
    /\ FetchedAt(1) /\ StateAt(1) = "stopping"
    /\ Len(CallsAt(1)) = 2 /\ output[1].kind = "success"
    /\ FetchedAt(2) /\ StateAt(2) = "pending"
    /\ output[2].msg = "instance is already starting"

RejectedPairs ==
    {<<"start", "running">>, <<"start", "pending">>,
     <<"start", "terminated">>, <<"start", "terminating">>,
     <<"stop", "stopped">>, <<"stop", "stopping">>,
     <<"stop", "terminated">>, <<"stop", "terminating">>,
     <<"terminate", "terminated">>, <<"terminate", "terminating">>}

ConflictMessages ==
    {"instance is already running", "instance is already starting",
     "instance is already stopped", "instance is already being stopped",
     "instance is already terminated", "instance is already being terminated",
     "instance is terminated or being terminated"}

\* C2: when the fetched state is rejected for the operation, no start, stop
\* or terminate call is sent for that target, and the error names the
\* conflict (stop on a stopped instance: "already stopped").
Thm_C2_RejectedSendsNoCall ==
    \A i \in 1..Len(instanceIDs) :
        (FetchedAt(i) /\ <<op, StateAt(i)>> \in RejectedPairs) =>
            /\ \A k \in 1..Len(calls) :
                   calls[k].pos = i => calls[k].api \notin TransitionAPIs
            /\ (i = idx /\ pc = "transition") => FALSE
            /\ (i = idx /\ pc = "report") => err \in ConflictMessages
            /\ i <= Len(output) =>
                   /\ output[i].kind = "error"
                   /\ output[i].msg \in ConflictMessages
                   /\ (op = "stop" /\ StateAt(i) = "stopped") =>
                          output[i].msg = "instance is already stopped"

\* stop on a stopped instance was rejected and reported
Wit_C2_StopAlreadyStopped ==
    /\ op = "stop"
    /\ Len(output) >= 1
    /\ FetchedAt(1) /\ StateAt(1) = "stopped"
    /\ output[1].msg = "instance is already stopped"

\* the target at position i succeeded on its own: describe and transition
OwnSuccess(i) ==
    /\ FetchedAt(i)
    /\ Len(CallsAt(i)) = 2
    /\ CallsAt(i)[2].api \in TransitionAPIs
    /\ ~CallsAt(i)[2].failed

RECURSIVE IdsWhere(_, _)
\* the ids of the positions 1..n that satisfy (or not) OwnSuccess, in order
IdsWhere(n, wanted) ==
    IF n = 0 THEN <<>>
    ELSE IF OwnSuccess(n) = wanted
         THEN Append(IdsWhere(n - 1, wanted), instanceIDs[n])
         ELSE IdsWhere(n - 1, wanted)

\* C3: in a batch, a failure on one target never prevents or alters the
\* processing of the others: when the batch is finished every target has
\* been processed, the targets whose own describe and transition succeeded
\* are exactly the ones reported successful and the others the ones
\* reported failed.
Thm_C3_BatchIndependence ==
    pc = "done" =>
        /\ Len(output) = Len(instanceIDs)
        /\ \A i \in 1..Len(instanceIDs) :
               /\ Len(CallsAt(i)) >= 1
               /\ output[i].id = instanceIDs[i]
               /\ output[i].kind = "success" <=> OwnSuccess(i)
        /\ successful = IdsWhere(Len(instanceIDs), TRUE)
        /\ failed = IdsWhere(Len(instanceIDs), FALSE)

\* a batch whose first target failed and whose second succeeded
Wit_C3_FailureThenSuccess ==
    /\ pc = "done"
    /\ Len(instanceIDs) = 2
    /\ ~OwnSuccess(1)
    /\ OwnSuccess(2)
    /\ successful = <<instanceIDs[2]>>
    /\ failed = <<instanceIDs[1]>>

\* C4: every transition call is decided on a describe of the same target
\* issued in the same per-target step, after the previous target's step
\* has finished: the call log of a step is describe, then the transition,
\* steps do not overlap, and the state the gate saw is the one that
\* describe returned.
Thm_C4_FreshDescribePerTarget ==
    /\ \A k \in 1..Len(calls) :
           /\ calls[k].id = instanceIDs[calls[k].pos]
           /\ k > 1 => calls[k - 1].pos <= calls[k].pos
           /\ calls[k].api \in TransitionAPIs =>
                  /\ k > 1
                  /\ calls[k - 1].api = "DescribeInstances"
                  /\ calls[k - 1].pos = calls[k].pos
                  /\ calls[k - 1].id = calls[k].id
                  /\ ~calls[k - 1].failed
                  /\ Len(calls[k - 1].reservations) > 0
                  /\ Len(calls[k - 1].reservations[1]) > 0
                  /\ <<op, calls[k - 1].reservations[1][1]>>
                         \notin RejectedPairs
           /\ calls[k].api = "DescribeInstances" =>
                  \A j \in 1..(k - 1) : calls[j].pos < calls[k].pos
    /\ pc \in {"validate", "transition", "report"} =>
           /\ Len(output) = idx - 1
           /\ Len(calls) >= 1
           /\ calls[Len(calls)].pos = idx
    /\ pc = "transition" =>
           /\ calls[Len(calls)].api = "DescribeInstances"
           /\ currentState = calls[Len(calls)].reservations[1][1]

\* the second target's transition call follows its own describe, which
\* returned another state than the first target's describe
Wit_C4_SecondTargetOwnDescribe ==
    /\ Len(calls) = 4
    /\ calls[4].api \in TransitionAPIs
    /\ calls[4].pos = 2
    /\ calls[3].api = "DescribeInstances"
    /\ calls[3].reservations[1][1] # calls[1].reservations[1][1]
    /\ calls[3].id # calls[1].id

StateRejectionMessages ==
    {"instance is already running", "instance is already starting",
     "instance is already stopped", "instance is already being stopped",
     "instance is already terminated", "instance is already being terminated",
     "instance is terminated or being terminated"}

\* C5: an empty describe result (no reservation, or a reservation without
\* instances) makes the step return "instance not found", which is none of
\* the state-rejection messages; no transition call is issued for the
\* target, it is reported failed, and the batch goes on to the end.
Thm_C5_NotFound ==
    \A i \in 1..Len(instanceIDs) :
        NotFoundAt(i) =>
            /\ Len(CallsAt(i)) = 1
            /\ (i = idx /\ pc = "report") => err = "instance not found"
            /\ i <= Len(output) =>
                   /\ output[i].kind = "error"
                   /\ output[i].msg = "instance not found"
                   /\ output[i].msg \notin StateRejectionMessages
                   /\ output[i].id = instanceIDs[i]
            /\ pc = "done" =>
                   /\ Len(output) = Len(instanceIDs)
                   /\ Len(failed) >= 1
                   /\ \E j \in 1..Len(failed) : failed[j] = instanceIDs[i]

\* a reservation without instances at the first target, reported as not
\* found, and a second target processed after it
Wit_C5_NotFoundThenNext ==
    /\ pc = "done"
    /\ Len(instanceIDs) = 2
    /\ NotFoundAt(1)
    /\ Len(CallsAt(1)[1].reservations) = 1
    /\ output[1].msg = "instance not found"
    /\ OwnSuccess(2)

\* ------------------------------------------------------------------------
\* Properties of the security-group step
\* ------------------------------------------------------------------------
MutatingSgAPIs == {"CreateSecurityGroup", "AuthorizeSecurityGroupIngress"}

SgCallsOf(p, run) ==
    SelectSeq(sgCalls, LAMBDA c : c.proc = p /\ c.run = run)

\* C6: two runs of the step in succession against the same VPC, nothing
\* else changing the group in between: once the first run has returned a
\* group id, the second run issues no create-group and no authorize call,
\* fails only if one of its describe calls fails, and otherwise returns
\* the same group id.
Thm_C6_SecondRunAddsNothing ==
    (Len(sgReturns[1]) >= 1 /\ sgReturns[1][1].err = NoError) =>
        /\ \A k \in 1..Len(sgCalls) :
               sgCalls[k].run = 2 =>
                   /\ sgCalls[k].api \notin MutatingSgAPIs
                   /\ sgCalls[k].rulesBefore = sgRules
        /\ Len(sgReturns[1]) = 2 =>
               IF sgReturns[1][2].err = NoError
               THEN sgReturns[1][2].id = sgReturns[1][1].id
               ELSE \E k \in 1..Len(sgCalls) :
                        sgCalls[k].run = 2 /\ sgCalls[k].failed

\* the first run created the group and added the three rules, the second
\* run returned the same id after its lookup alone
Wit_C6_CreateThenReuse ==
    /\ Len(sgReturns[1]) = 2
    /\ sgReturns[1][1] = [id |-> "sg-created", err |-> NoError]
    /\ sgReturns[1][2] = [id |-> "sg-created", err |-> NoError]
    /\ Len(SgCallsOf(1, 1)) = 4
    /\ Len(SgCallsOf(1, 2)) = 1

\* a rule set opens the baseline port to the world as the scans see it:
\* a TCP rule from 0.0.0.0/0 whose port range starts at the port
OpenFrom(rules, port) ==
    \E r \in rules : r.proto = "tcp" /\ r.from = port /\ r.cidr = AnyCidr

\* the run of call k found the group when it looked it up by name
FoundExisting(k) ==
    \E j \in 1..k :
        /\ sgCalls[j].proc = sgCalls[k].proc
        /\ sgCalls[j].run = sgCalls[k].run
        /\ sgCalls[j].api = "DescribeSecurityGroups:name"
        /\ ~sgCalls[j].failed
        /\ sgCalls[j].groupBefore # NoGroup

\* C7: when the group already exists, the step authorizes exactly the
\* baseline rules that are not yet satisfied, in one call that is never
\* empty and never holds a satisfied rule, removes or changes no existing
\* rule, and returns the existing group id.
Thm_C7_AddsOnlyMissingRules ==
    /\ \A k \in 1..Len(sgCalls) :
           /\ sgCalls[k].rulesBefore \subseteq sgRules
           /\ (sgCalls[k].api = "AuthorizeSecurityGroupIngress"
                   /\ FoundExisting(k)) =>
                  /\ Len(sgCalls[k].perms) > 0
                  /\ Cardinality(SeqRange(sgCalls[k].perms))
                         = Len(sgCalls[k].perms)
                  /\ SeqRange(sgCalls[k].perms) \subseteq
                         {BaselineRule(22), BaselineRule(80),
                          BaselineRule(443)} \ sgCalls[k].rulesBefore
                  /\ \A q \in {22, 80, 443} :
                         BaselineRule(q) \in SeqRange(sgCalls[k].perms)
                             <=> ~OpenFrom(sgCalls[k].rulesBefore, q)
                  /\ ~sgCalls[k].failed =>
                         sgRules = sgCalls[k].rulesBefore
                                       \cup SeqRange(sgCalls[k].perms)
       /\ \A r \in 1..Len(sgReturns[1]) :
              (sgReturns[1][r].err = NoError
                   /\ SgCallsOf(1, r)[1].groupBefore # NoGroup) =>
                  sgReturns[1][r].id = SgCallsOf(1, r)[1].groupBefore

\* the group existed with the SSH rule alone; the step added exactly the
\* HTTP and HTTPS rules and returned the existing id
Wit_C7_OnlySshPresent ==
    /\ Len(sgReturns[1]) = 1
    /\ sgReturns[1][1] = [id |-> "sg-existing", err |-> NoError]
    /\ Len(sgCalls) = 3
    /\ sgCalls[1].rulesBefore = {BaselineRule(22)}
    /\ sgCalls[3].api = "AuthorizeSecurityGroupIngress"
    /\ sgCalls[3].perms = <<BaselineRule(80), BaselineRule(443)>>
    /\ sgRules = {BaselineRule(22), BaselineRule(80), BaselineRule(443)}

\* a rule set holds the exact baseline rule of the port: TCP, both ends of
\* the port range equal to the port, 0.0.0.0/0
OpenExactly(rules, port) ==
    \E r \in rules :
        r.proto = "tcp" /\ r.from = port /\ r.to = port /\ r.cidr = AnyCidr

\* C8 as stated: a rule satisfies the baseline port only with the exact
\* port on both ends, so whenever the exact rule is not there the step
\* adds it: the list to authorize holds the baseline rule of every port
\* without an exact rule, and a run returns successfully only when all
\* three exact rules are in the group.
CE_C8_ExactPortRange ==
    /\ sgPc[1] = "authorize" =>
           \A q \in {22, 80, 443} :
               ~OpenExactly(sgRules, q) =>
                   BaselineRule(q) \in SeqRange(permissions[1])
    /\ (sgPc[1] = "done" /\ sgReturns[1][Len(sgReturns[1])].err = NoError) =>
           \A q \in {22, 80, 443} : OpenExactly(sgRules, q)

\* C8 (amended): an existing rule counts as satisfying the baseline port p
\* only if its protocol is TCP, the lower end of its port range (FromPort)
\* is exactly p and one of its source ranges is exactly 0.0.0.0/0; the
\* upper end is not compared.  A rule on port p with a narrower CIDR,
\* another protocol, or a range that does not start at p does not count
\* and the baseline rule for p is still added; a range that starts at p
\* counts and the baseline rule for p is not added.
Thm_C8_SatisfiedByFromPort ==
    /\ sgPc[1] = "reread" =>
           needsRules[1] = (\E q \in {22, 80, 443} : ~OpenFrom(sgRules, q)
                                \/ sgID[1] = "sg-created")
    /\ sgPc[1] = "authorize" =>
           \A q \in {22, 80, 443} :
               BaselineRule(q) \in SeqRange(permissions[1])
                   <=> ~OpenFrom(sgRules, q)
    /\ (sgPc[1] = "done" /\ sgReturns[1][Len(sgReturns[1])].err = NoError) =>
           \A q \in {22, 80, 443} : OpenFrom(sgRules, q)

\* the group holds SSH from a narrower CIDR, HTTP over UDP and the TCP
\* range 80-443: the SSH and HTTPS rules are to be added, the HTTP rule
\* is not
Wit_C8_NarrowCidrAndRange ==
    /\ sgPc[1] = "authorize"
    /\ sgRules = {Rule("tcp", 22, 22, "10.0.0.0/8"),
                  Rule("udp", 80, 80, AnyCidr),
                  Rule("tcp", 80, 443, AnyCidr)}
    /\ permissions[1] = <<BaselineRule(22), BaselineRule(443)>>

\* C9: with two invocations running the step concurrently, no create of
\* the group is attempted once the group exists, and two invocations that
\* both return a group id return the same one.
CE_C9_NoSecondCreate ==
    /\ \A k \in 1..Len(sgCalls) :
           sgCalls[k].api = "CreateSecurityGroup" =>
               sgCalls[k].groupBefore = NoGroup
    /\ (/\ Len(sgReturns[1]) = 1 /\ sgReturns[1][1].err = NoError
        /\ Len(sgReturns[2]) = 1 /\ sgReturns[2][1].err = NoError) =>
           sgReturns[1][1].id = sgReturns[2][1].id

\* ------------------------------------------------------------------------
\* Properties of the create flow
\* ------------------------------------------------------------------------
SetupErrors ==
    {"failed to load AWS config",
     "AWS credentials invalid or AWS_PROFILE not set",
     NoSSHKeyMessage,
     "no default VPC found",
     "no default subnet found"}

\* a mutating provider call has been issued in this run
MutationIssued ==
    \/ \E k \in 1..Len(createCalls) :
           createCalls[k].api \in {"ImportKeyPair", "RunInstances"}
    \/ \E k \in 1..Len(sgCalls) : sgCalls[k].api \in MutatingSgAPIs

\* C10: a setup error (invalid or missing credentials, no default VPC or
\* subnet, no local SSH key while the remote key-pair is absent) aborts the
\* create flow before any mutating provider call (key-pair import,
\* security-group creation, rule authorization, instance launch) has been
\* issued in that run.
CE_C10_SetupErrorBeforeMutation ==
    (createPc = "aborted" /\ createErr \in SetupErrors) => ~MutationIssued

\* what the flow reports when a selection screen was quit
CancelMessages == {"operation cancelled", "Operation cancelled"}

\* C11: when a selection screen of the create flow (SSH key, environment,
\* instance type) is quit, the flow aborts and no mutating provider call
\* has been issued in that run.
CE_C11_QuitBeforeMutation ==
    (createPc = "aborted" /\ createErr \in CancelMessages) => ~MutationIssued

\* the provider calls createInstance issues itself, in its order; the
\* security-group step comes between DescribeSubnets and DescribeImages
StepAPIs == <<"DescribeVpcs", "DescribeSubnets", "DescribeImages",
              "RunInstances", "WaitInstanceRunning", "DescribeInstances">>

StepCalls == SelectSeq(createCalls, LAMBDA c : c.api \in SeqRange(StepAPIs))

\* the last call createInstance issued was api and it returned no error
LastStepOk(api) ==
    /\ Len(StepCalls) > 0
    /\ StepCalls[Len(StepCalls)].api = api
    /\ ~StepCalls[Len(StepCalls)].failed

\* the security-group step returned a group id and no error
SgStepOk ==
    /\ Len(sgReturns[1]) = 1
    /\ sgReturns[1][1].err = NoError

\* what has to hold when the step that issues call c begins
MayBegin(c) ==
    CASE c.api = "DescribeVpcs" ->
           StepCalls = <<>> /\ sgCalls = <<>>
      [] c.api = "DescribeSubnets" ->
           LastStepOk("DescribeVpcs") /\ network.vpc # "" /\ sgCalls = <<>>
      [] c.api = "DescribeImages" ->
           /\ SgStepOk
           /\ \/ /\ LastStepOk("DescribeSubnets")
                 /\ c.arg.name = Patterns[1]
              \/ /\ StepCalls[Len(StepCalls)].api = "DescribeImages"
                 /\ StepCalls[Len(StepCalls)].arg.name = Patterns[1]
                 /\ c.arg.name = Patterns[2]
                 /\ amiID = ""
      [] c.api = "RunInstances" ->
           LastStepOk("DescribeImages") /\ amiID # ""
      [] c.api = "WaitInstanceRunning" ->
           LastStepOk("RunInstances") /\ instanceID # ""
      [] c.api = "DescribeInstances" ->
           LastStepOk("WaitInstanceRunning")
      [] OTHER -> TRUE

\* a call of createInstance that ends the operation when it fails
EndsOperation(c) ==
    \/ c.failed /\ c.api \in {"DescribeVpcs", "DescribeSubnets",
                               "RunInstances", "DescribeInstances"}
    \/ /\ c.api = "DescribeImages"
       /\ c.arg.name = Patterns[Len(Patterns)]
       /\ amiID' = ""

StepsInOrder ==
    /\ createCalls' # createCalls =>
          /\ createCalls' = Append(createCalls,
                                   createCalls'[Len(createCalls')])
          /\ MayBegin(createCalls'[Len(createCalls')])
          /\ EndsOperation(createCalls'[Len(createCalls')]) =>
                 (createPc' = "aborted" /\ createErr' # NoError)
    /\ sgCalls' # sgCalls =>
          /\ LastStepOk("DescribeSubnets")
          /\ network.subnet # ""
    /\ (createPc = "sg" /\ createPc' # "sg" /\ ~SgStepOk) =>
          (createPc' = "aborted" /\ createErr' # NoError)
    /\ (createPc = "wait_recv" /\ createPc' # "wait_recv"
          /\ ~LastStepOk("WaitInstanceRunning")) =>
          (createPc' = "aborted" /\ createErr' # NoError)
    /\ createPc = "aborted" =>
          (createCalls' = createCalls /\ sgCalls' = sgCalls)

\* C12: createInstance issues its provider calls in the order default-VPC
\* lookup, default-subnet lookup, security-group resolution, image
\* resolution, launch, wait for running, re-fetch; a step begins only after
\* its predecessor returned successfully, at most one launch is issued, and
\* after a failed step no later step starts and the operation ends with an
\* error.
Thm_C12_StepsInOrder == [][StepsInOrder]_vars

\* the whole chain ran, the security group was created and the image came
\* from the fallback pattern
Wit_C12_AllStepsRan ==
    /\ createPc = "created"
    /\ [i \in 1..Len(StepCalls) |-> StepCalls[i].api] =
          <<"DescribeVpcs", "DescribeSubnets", "DescribeImages",
            "DescribeImages", "RunInstances", "WaitInstanceRunning",
            "DescribeInstances">>
    /\ \E k \in 1..Len(sgCalls) : sgCalls[k].api = "CreateSecurityGroup"

\* provider calls that would take back what a run created
RemovingAPIs == {"TerminateInstances", "StopInstances",
                 "DeleteSecurityGroup", "RevokeSecurityGroupIngress",
                 "DeleteKeyPair"}

RemovalIssued ==
    \/ \E k \in 1..Len(createCalls) : createCalls[k].api \in RemovingAPIs
    \/ \E k \in 1..Len(sgCalls) : sgCalls[k].api \in RemovingAPIs

\* the wait for the running state has failed and the main flow has seen it
WaitFailureSeen ==
    /\ \E k \in 1..Len(createCalls) :
           createCalls[k].api = "WaitInstanceRunning" /\ createCalls[k].failed
    /\ createPc # "wait_recv"

NothingRemoved ==
    /\ ~RemovalIssued'
    /\ keyPairRemote => keyPairRemote'
    /\ sgGroupId # NoGroup => sgGroupId' = sgGroupId
    /\ sgRules \subseteq sgRules'
    /\ instanceState # Absent =>
          (instanceID' = instanceID /\ instanceState' \in {"pending", "running"})
    /\ WaitFailureSeen' =>
          /\ createPc' = "aborted"
          /\ createErr' = "failed waiting for instance to be running"
          /\ instanceState' = "pending"
    /\ installErr' # NoError =>
          /\ createPc' = "finished"
          /\ createErr' = NoError
          /\ instanceState' = "running"

\* C13: the create flow never removes what it created: when the wait for
\* the running state times out or fails, or the key installation fails, the
\* error is reported, and no terminate or stop call is issued for the
\* launched instance and no security group, ingress rule or key-pair is
\* deleted.
Thm_C13_NothingRemoved == [][NothingRemoved]_vars

\* the wait timed out in a run that imported the key-pair and created the
\* security group; all three are still there
Wit_C13_TimeoutLeavesInstance ==
    /\ createPc = "aborted"
    /\ createErr = "failed waiting for instance to be running"
    /\ \E k \in 1..Len(createCalls) :
           /\ createCalls[k].api = "WaitInstanceRunning"
           /\ createCalls[k].arg = "timeout"
    /\ \E k \in 1..Len(createCalls) :
           createCalls[k].api = "ImportKeyPair" /\ ~createCalls[k].failed
    /\ sgGroupId = "sg-created"
    /\ instanceState = "pending"
    /\ keyPairRemote

\* the main flow is inside the select of getInstanceTypes or the receive
\* of createInstance
MainWaits == createPc \in {"pricing_wait", "wait_recv"}

\* the log of background activity is made of rounds: the main flow starts
\* one task, that task sends one value, the main flow receives it from the
\* channel it was sent on
InRounds ==
    \A i \in 1..Len(bgLog) :
        CASE i % 3 = 1 -> bgLog[i].who = "main" /\ bgLog[i].ev = "go"
          [] i % 3 = 2 -> /\ bgLog[i].ev = "send"
                          /\ bgLog[i].who = bgLog[i - 1].what
          [] OTHER -> /\ bgLog[i].who = "main" /\ bgLog[i].ev = "recv"
                      /\ bgLog[i].what = bgLog[i - 1].what

OneTaskOneResult ==
    /\ InRounds
    /\ \A i, j \in 1..Len(bgLog) :
          (bgLog[i].ev = "go" /\ bgLog[j].ev = "go"
             /\ bgLog[i].what = bgLog[j].what) => i = j
    /\ Cardinality(bgTask) <= 1
    /\ Len(doneChan) + Len(errorChan) <= 1
    /\ MainWaits <=> Len(bgLog) % 3 \in {1, 2}
    /\ Len(bgLog) % 3 = 1 =>
          (bgTask = {bgLog[Len(bgLog)].what} /\ doneChan = <<>>
             /\ errorChan = <<>>)
    /\ Len(bgLog) % 3 = 2 =>
          (bgTask = {} /\ Len(doneChan) + Len(errorChan) = 1)
    /\ Len(bgLog) % 3 = 0 =>
          (bgTask = {} /\ doneChan = <<>> /\ errorChan = <<>>)

\* C14: each long-running wait (pricing fetch, wait for the running state)
\* is carried by exactly one background task, which delivers exactly one
\* result to the main flow; the main flow blocks until the result arrives
\* and then continues, the task is never blocked on its send, and at most
\* one task is in flight.
Thm_C14_OneTaskOneResult ==
    /\ []OneTaskOneResult
    /\ MainWaits ~> ~MainWaits
    /\ (bgTask # {}) ~> (bgTask = {})

\* both waits of a run are over: the pricing task sent its list on done, the
\* waiter sent an error
Wit_C14_BothWaitsDelivered ==
    /\ Len(bgLog) = 6
    /\ bgLog[2] = BgEvent("pricing", "send", "done")
    /\ bgLog[5] = BgEvent("waiter", "send", "done")
    /\ createErr = "failed waiting for instance to be running"

\* positions of the launch call in the log of the run
LaunchAt == {k \in 1..Len(createCalls) : createCalls[k].api = "RunInstances"}

\* before position k the lookup found the key-pair or the import succeeded
KeyEstablishedBefore(k) ==
    \E j \in 1..(k - 1) :
        \/ /\ createCalls[j].api = "DescribeKeyPairs"
           /\ createCalls[j].arg = "ok"
        \/ /\ createCalls[j].api = "ImportKeyPair"
           /\ ~createCalls[j].failed

\* C15: whenever the create flow issues the launch call, the key-pair
\* clouddley-default-key was established earlier in the run (the lookup
\* found it or the import succeeded); no launch follows a failed lookup, a
\* failed read of the key file or a failed import.
Thm_C15_KeyBeforeLaunch ==
    \A k \in LaunchAt :
        /\ KeyEstablishedBefore(k)
        /\ keyPairRemote
        /\ \A j \in 1..Len(createCalls) :
              createCalls[j].api \in {"DescribeKeyPairs", "ImportKeyPair"} =>
                  ~createCalls[j].failed
        /\ \A j \in 1..Len(fileOps) :
              fileOps[j].op = "ReadFile" => fileOps[j].ok

\* a launch in a run that had to import the key
Wit_C15_LaunchAfterImport ==
    /\ LaunchAt # {}
    /\ \E j \in 1..Len(createCalls) :
          createCalls[j].api = "ImportKeyPair" /\ ~createCalls[j].failed
    /\ selectedKey = "ed25519"

ImportAt == {k \in 1..Len(createCalls) : createCalls[k].api = "ImportKeyPair"}

\* the lookup of the run found the key-pair
LookupFound ==
    \E j \in 1..Len(createCalls) :
        createCalls[j].api = "DescribeKeyPairs" /\ createCalls[j].arg = "ok"

\* C16: the key-pair import is issued at most once per run and only after
\* the lookup reported clouddley-default-key absent; when the lookup finds
\* it, no local key path is probed, no key file is read, no import is
\* issued, and the create flow continues.
Thm_C16_ImportOnlyWhenAbsent ==
    /\ Cardinality(ImportAt) <= 1
    /\ \A k \in ImportAt :
          \E j \in 1..(k - 1) :
              /\ createCalls[j].api = "DescribeKeyPairs"
              /\ createCalls[j].arg = "InvalidKeyPair.NotFound"
    /\ LookupFound =>
          /\ fileOps = <<>>
          /\ localKeys = <<>>
          /\ selectedKey = NoKey
          /\ ImportAt = {}
          /\ createCalls[Len(createCalls)].api = "DescribeKeyPairs" =>
                \/ /\ createPc \in {"env_select", "pricing", "pricing_wait"}
                   /\ createErr = NoError
                \/ /\ createPc = "aborted"
                   /\ envChoice = Cancelled
                   /\ createErr = "Operation cancelled"

\* the key-pair was found and the run went on to launch without touching a
\* local key
Wit_C16_FoundThenLaunch ==
    /\ LookupFound
    /\ LaunchAt # {}
    /\ fileOps = <<>>

\* the lookup reported the key-pair absent and neither public key file
\* exists
NoKeyAnywhere ==
    /\ \E j \in 1..Len(createCalls) :
          /\ createCalls[j].api = "DescribeKeyPairs"
          /\ createCalls[j].arg = "InvalidKeyPair.NotFound"
    /\ Len(fileOps) >= 2
    /\ fileOps[1] = FileOp("Stat", "~/.ssh/id_rsa.pub", FALSE)
    /\ fileOps[2] = FileOp("Stat", "~/.ssh/id_ed25519.pub", FALSE)

\* C17: when the remote key-pair is absent and neither ~/.ssh/id_rsa.pub
\* nor ~/.ssh/id_ed25519.pub exists, the create flow fails with the 'no SSH
\* public key found' error that tells how to generate a key; no key is
\* generated, nothing is imported, and no environment selection, instance
\* selection or launch follows.
Thm_C17_NoLocalKeyFails ==
    NoKeyAnywhere =>
        /\ createPc = "aborted"
        /\ createErr = NoSSHKeyMessage
        /\ Len(fileOps) = 2
        /\ ~keyPairRemote
        /\ selectedKey = NoKey
        /\ ~MutationIssued
        /\ createCalls[Len(createCalls)].api = "DescribeKeyPairs"
        /\ envChoice = -1 /\ instanceChoice = -1
        /\ bgLog = <<>> /\ instanceTypes = <<>>
        /\ instanceState = Absent

Wit_C17_NoKeyAborted ==
    /\ NoKeyAnywhere
    /\ createErr = NoSSHKeyMessage

\* ------------------------------------------------------------------------
\* Properties of the image resolver
\* ------------------------------------------------------------------------
\* the image queries of the run, in the order they were issued
ImageQueries == SelectSeq(createCalls, LAMBDA c : c.api = "DescribeImages")

\* the match set a query yielded: the trusted owner's images of its
\* pattern, in the provider's order; nothing when the query failed
Yield(c) ==
    IF c.failed THEN <<>>
    ELSE SelectSeq(images, LAMBDA img : /\ img.name = c.arg.name
                                        /\ img.owner = TrustedOwner)

\* C18: the image resolver queries its patterns in order (24.04, then
\* 22.04), every query restricted to the trusted owner, and returns an
\* image of the first pattern that yields a non-empty match set; when the
\* first yields nothing and the second matches it returns an image of the
\* second and no error; it fails with 'no Ubuntu AMI found' only when no
\* pattern yields a match.
Thm_C18_FirstMatchingPattern ==
    LET Q == ImageQueries IN
    /\ Len(Q) <= Len(Patterns)
    /\ \A i \in 1..Len(Q) :
          /\ Q[i].arg.name = Patterns[i]
          /\ Q[i].arg.owners = {TrustedOwner}
          /\ i < Len(Q) => Yield(Q[i]) = <<>>
    /\ createPc = "launch" =>
          /\ createErr = NoError
          /\ Len(Q) > 0
          /\ \E img \in SeqRange(Yield(Q[Len(Q)])) :
                /\ img.id = amiID
                /\ img.name = Patterns[Len(Q)]
                /\ img.owner = TrustedOwner
    /\ (Len(Q) > 0 /\ Yield(Q[Len(Q)]) # <<>>) => createPc = "launch"
    /\ createPc = "aborted" =>
          /\ createErr = "no Ubuntu AMI found"
          /\ Len(Q) = Len(Patterns)
          /\ \A i \in 1..Len(Q) : Yield(Q[i]) = <<>>
    /\ (Len(Q) = Len(Patterns) /\ \A i \in 1..Len(Q) : Yield(Q[i]) = <<>>)
          => createPc = "aborted"

\* the 24.04 query succeeded and matched nothing although another owner
\* has a 24.04 image; the 22.04 image was returned
Wit_C18_FallbackPattern ==
    /\ createPc = "launch"
    /\ createErr = NoError
    /\ Len(ImageQueries) = 2
    /\ ~ImageQueries[1].failed
    /\ \E i \in 1..Len(images) :
          images[i].name = Patterns[1] /\ images[i].owner = OtherOwner
    /\ \E i \in 1..Len(images) :
          /\ images[i].id = amiID
          /\ images[i].name = Patterns[2]

\* the match set the returned image was taken from
ChosenSet == Yield(ImageQueries[Len(ImageQueries)])

\* C19: among the images of the chosen match set the resolver returns one
\* whose creation timestamp, compared as a string, is the greatest of the
\* set, whatever the order of the images in the provider's response.
Thm_C19_LatestOfMatchSet ==
    createPc = "launch" =>
        \E chosen \in SeqRange(ChosenSet) :
            /\ chosen.id = amiID
            /\ \A img \in SeqRange(ChosenSet) :
                  ~StrGreater(img.date, chosen.date)

\* the match set holds an older image first and a newer one after it, and
\* the newer one was returned
Wit_C19_NewerImageSecond ==
    /\ createPc = "launch"
    /\ Len(ChosenSet) >= 2
    /\ StrGreater(ChosenSet[2].date, ChosenSet[1].date)
    /\ amiID = ChosenSet[2].id

\* ------------------------------------------------------------------------
\* Failed provider calls
\* ------------------------------------------------------------------------
\* positions the main flow is at while a background task holds the result
AwaitingResult == {"pricing_wait", "wait_recv"}

\* C20: a failed provider call is never retried and is surfaced at once:
\* the first provider call of the create operation that fails is the last
\* call the operation issues, and the operation ends with an error.
CE_C20_FailureEndsOperation ==
    /\ \A k \in 1..Len(createCalls) :
          createCalls[k].failed =>
              /\ k = Len(createCalls)
              /\ createPc \in AwaitingResult \cup {"aborted"}
    /\ \A k \in 1..Len(sgCalls) :
          sgCalls[k].failed =>
              /\ k = Len(sgCalls)
              /\ createPc \in {"sg", "aborted"}

\* ------------------------------------------------------------------------
\* Properties of the commands as a whole
\* ------------------------------------------------------------------------

\* C21: every fallible step ends in a success or an error result that its
\* caller inspects; whatever the provider answers (an empty launch result,
\* an empty describe result after the wait, an instance without a state),
\* the program does not crash.
CE_C21_NoCrash ==
    /\ createPc # "crashed"
    /\ pc # "crashed"

\* the install commands run so far, in order
InstallOps == SelectSeq(sshOps, LAMBDA o : o.cmd = "install")

IsPrefix(a, b) == Len(a) <= Len(b) /\ SubSeq(b, 1, Len(a)) = a

\* the lines of a file in which the marker word occurs
MarkedLines(file) ==
    {i \in 1..Len(file.lines) : Marker \in SeqRange(file.lines[i])}

\* C22: installing the key is idempotent. An install appends the key line
\* only when no line of the file holds the marker; it never removes or
\* rewrites a line; once a line holds the marker a further install leaves
\* the file as it is; and over any number of installs the tool adds at most
\* one line.
Thm_C22_InstallIdempotent ==
    /\ \A k \in 1..Len(InstallOps) :
         LET o == InstallOps[k] IN
         /\ IsPrefix(o.before.lines, o.after.lines)
         /\ \/ o.after = o.before
            \/ /\ MarkedLines(o.before) = {}
               /\ o.after = File(Append(o.before.lines, sshPublicKey))
         /\ k > 1 =>
               /\ o.before = InstallOps[k - 1].after
               /\ MarkedLines(InstallOps[k - 1].after) # {} =>
                      o.after = o.before
    /\ Len(InstallOps) >= 1 =>
         /\ authorizedKeys = InstallOps[Len(InstallOps)].after
         /\ Len(authorizedKeys.lines) <= Len(InstallOps[1].before.lines) + 1

\* the first install appended the key to a file that held the user's key,
\* the second one ran and left the file as it was
Wit_C22_SecondInstallNoChange ==
    /\ Len(InstallOps) >= 2
    /\ InstallOps[1].before = File(<<UserKeyLine>>)
    /\ InstallOps[1].after = File(<<UserKeyLine, sshPublicKey>>)
    /\ InstallOps[2].ok
    /\ InstallOps[2].after = InstallOps[2].before
    /\ authorizedKeys = File(<<UserKeyLine, sshPublicKey>>)

\* the ssh commands of the latest run of installClouddleyKey
LastRun ==
    LET start == CHOOSE i \in 1..Len(sshOps) :
                     /\ sshOps[i].cmd = "install"
                     /\ \A j \in (i + 1)..Len(sshOps) :
                            sshOps[j].cmd # "install"
    IN  SubSeq(sshOps, start, Len(sshOps))

\* a line of the output is the sentinel KEY_FOUND
ReportsFound(out) == KeyFound \in SeqRange(Split(out, "\n"))

\* C23: installClouddleyKey reports success only if the install command
\* succeeded, the read-back command succeeded and its output reports
\* KEY_FOUND; a failed install or read-back command gives a command
\* failure, a read-back that reports the key absent gives the distinct
\* verification failure.
Thm_C23_InstallOutcome ==
    (createPc = "finished" /\ Len(sshOps) > 0) =>
        LET r == LastRun IN
        /\ Len(r) \in {1, 2}
        /\ installErr = NoError <=>
               /\ Len(r) = 2
               /\ r[1].ok /\ r[2].cmd = "verify" /\ r[2].ok
               /\ ReportsFound(r[2].output)
        /\ ~r[1].ok => Len(r) = 1 /\ installErr = "SSH command failed"
        /\ (Len(r) = 2 /\ ~r[2].ok) =>
               installErr = "verification command failed"
        /\ (Len(r) = 2 /\ r[2].ok /\ ~ReportsFound(r[2].output)) =>
               installErr = "key installation verification failed"

\* both commands ran without error and the read-back reported the key
\* absent: the verification failure
Wit_C23_KeyReportedAbsent ==
    /\ createPc = "finished"
    /\ Len(sshOps) = 2
    /\ sshOps[1].ok /\ sshOps[2].ok
    /\ ~ReportsFound(sshOps[2].output)
    /\ installErr = "key installation verification failed"

\* the keys that answer yes at a prompt showing model m: y or Y, or enter
\* or space while Yes is highlighted
YesKey(m, key) ==
    \/ key \in {"y", "Y"}
    \/ key \in {"enter", " "} /\ m.choice = 0

SaidYes(m) == Answered(m) /\ Selected(m)

\* the prompt returns: on a yes the install starts, otherwise the flow
\* ends with no remote command and the instance as it was
PromptGates ==
    (createPc = "created" /\ createPc' # "created") =>
        /\ UNCHANGED <<sshOps, instanceState, createCalls, authorizedKeys>>
        /\ IF SaidYes(confirmResult')
           THEN /\ createPc' = "install"
                /\ \E key \in Keys :
                     /\ YesKey(confirmResult, key)
                     /\ confirmUpdate(confirmResult, key).model =
                            confirmResult'
           ELSE createPc' = "finished"

\* a remote command is run only by an install that follows a yes
RemoteOnlyAfterYes ==
    sshOps' # sshOps => createPc = "install" /\ SaidYes(confirmResult)

\* C24: the remote key installation is attempted only if the user answered
\* the prompt with yes (y or Y, or enter or space while Yes is
\* highlighted); on a no, or when the prompt is quit without an answer, no
\* remote command is issued and the created instance is left untouched.
Thm_C24_InstallOnlyOnYes ==
    /\ [](createPc = "created" =>
            \A key \in Keys :
                LET u == confirmUpdate(confirmResult, key) IN
                (u.quit /\ SaidYes(u.model)) <=> YesKey(confirmResult, key))
    /\ [][PromptGates]_vars
    /\ [][RemoteOnlyAfterYes]_vars
    /\ []((createPc = "finished" /\ ~SaidYes(confirmResult)) =>
            /\ sshOps = <<>>
            /\ authorizedKeys = FreshHostFile
            /\ instanceState = "running"
            /\ createCalls[Len(createCalls)].api = "DescribeInstances")

\* the user answered yes and both commands of the install ran without
\* error
Wit_C24_YesThenInstall ==
    /\ createPc = "finished"
    /\ SaidYes(confirmResult)
    /\ Len(sshOps) = 2
    /\ installErr = NoError

\* the positions 1..n whose result line is of the given kind, in order
PositionsOf(n, kind) ==
    SelectSeq([i \in 1..n |-> i], LAMBDA i : output[i].kind = kind)

\* the identifiers at those positions
TargetsOf(n, kind) ==
    [k \in 1..Len(PositionsOf(n, kind)) |->
        instanceIDs[PositionsOf(n, kind)[k]]]

\* the describe calls of the batch, in the order they were issued
DescribeCalls == SelectSeq(calls, LAMBDA c : c.api = "DescribeInstances")

\* C25: when a batch of start, stop or delete is finished, every parsed
\* target, counted by position, was processed exactly once and in input
\* order, and is in exactly one of the successful and the failed list; the
\* two lists have as many entries as there were targets and keep the input
\* order.
Thm_C25_EveryTargetInOneList ==
    pc = "done" =>
        LET n == Len(instanceIDs) IN
        /\ n = Len(parseInstanceIDs(idFlag))
        /\ Len(output) = n
        /\ \A i \in 1..n : /\ output[i].id = instanceIDs[i]
                           /\ output[i].kind \in {"success", "error"}
        /\ Len(DescribeCalls) = n
        /\ \A i \in 1..n : /\ DescribeCalls[i].pos = i
                           /\ DescribeCalls[i].id = instanceIDs[i]
        /\ \A k \in 1..(Len(calls) - 1) : calls[k].pos <= calls[k + 1].pos
        /\ successful = TargetsOf(n, "success")
        /\ failed = TargetsOf(n, "error")
        /\ Len(successful) + Len(failed) = n

\* stop of i-aaa given twice: the first occurrence is stopped, the second
\* is rejected, and the identifier is once in each list
Wit_C25_SameTargetTwice ==
    /\ pc = "done"
    /\ op = "stop"
    /\ instanceIDs = <<"i-aaa", "i-aaa">>
    /\ successful = <<"i-aaa">>
    /\ failed = <<"i-aaa">>
    /\ output[1].kind = "success"
    /\ output[2].kind = "error"

\* a segment without its surrounding whitespace: from its first to its
\* last character that is not whitespace
Stripped(seg) ==
    LET solid == {i \in 1..Len(seg) : seg[i] \notin Whitespace}
    IN  IF solid = {} THEN <<>>
        ELSE SubSeq(seg, CHOOSE i \in solid : \A j \in solid : i <= j,
                         CHOOSE i \in solid : \A j \in solid : i >= j)

RECURSIVE ScanIds(_, _, _)
\* the identifiers of a flag value, read character by character: cur is
\* the segment being read, acc the identifiers found so far
ScanIds(rest, cur, acc) ==
    LET closed == IF Stripped(cur) = <<>> THEN acc
                  ELSE Append(acc, Stripped(cur))
    IN  IF Len(rest) = 0 THEN closed
        ELSE IF rest[1] = "," THEN ScanIds(Tail(rest), <<>>, closed)
        ELSE ScanIds(Tail(rest), Append(cur, rest[1]), acc)

\* C26: the --id value is split on commas, each segment loses its
\* surrounding whitespace, empty segments are dropped and the rest keep
\* their order: "i-aaa, i-bbb,,  i-ccc" gives exactly i-aaa, i-bbb, i-ccc,
\* and a value of only commas and spaces gives no identifier.
Thm_C26_ParseIds ==
    pc # "flags" =>
        /\ instanceIDs = ScanIds(idFlag, <<>>, <<>>)
        /\ pc = "ended" <=> instanceIDs = <<>>
        /\ idFlag = ExampleFlag =>
               instanceIDs = << <<"i", "-", "a", "a", "a">>,
                                <<"i", "-", "b", "b", "b">>,
                                <<"i", "-", "c", "c", "c">> >>
        /\ (\A i \in 1..Len(idFlag) : idFlag[i] \in {",", " "}) =>
               instanceIDs = <<>>
        /\ \A k \in 1..Len(instanceIDs) :
               /\ instanceIDs[k] # <<>>
               /\ "," \notin SeqRange(instanceIDs[k])
               /\ instanceIDs[k][1] \notin Whitespace
               /\ instanceIDs[k][Len(instanceIDs[k])] \notin Whitespace

\* the example value was parsed into its three identifiers
Wit_C26_ExampleParsed ==
    /\ idFlag = ExampleFlag
    /\ pc = "credentials"
    /\ Len(instanceIDs) = 3
    /\ instanceIDs[3] = <<"i", "-", "c", "c", "c">>

\* the answers that read y or yes, in any letter case
YesAnswers ==
    {<<y>> : y \in {"y", "Y"}} \cup
    {<<y, e, z>> : y \in {"y", "Y"}, e \in {"e", "E"}, z \in {"s", "S"}}

\* the line waiting on standard input is complete and, without its
\* surrounding whitespace, reads y or yes
AnswersYes ==
    /\ \E i \in 1..Len(stdin) : stdin[i] = "\n"
    /\ \E i \in 1..Len(stdin) :
         /\ stdin[i] = "\n"
         /\ \A j \in 1..(i - 1) : stdin[j] # "\n"
         /\ Stripped(SubSeq(stdin, 1, i)) \in YesAnswers

\* a describe or transition call for a target was made
TargetCalled ==
    \E k \in 1..Len(calls) :
        calls[k].api \in {"DescribeInstances"} \cup
                         {TransitionAPI(o) : o \in Operations}

\* the prompt was answered with y or yes
Confirmed ==
    \E k \in 1..Len(cmdLog) :
        cmdLog[k].step = "ReadString" /\ cmdLog[k].ok

\* the prompt lets the command on exactly on y or yes, and ends it with
\* no call otherwise
PromptStep ==
    pc = "confirm" =>
        IF AnswersYes
        THEN pc' = "client" /\ cmdErr' = NoError
        ELSE /\ pc' = "ended"
             /\ cmdErr' \in {"Operation cancelled", "Error reading input"}
             /\ calls' = <<>>

\* C27: unless --yes was given, no describe or transition call for any
\* target is made before the user answered y or yes (letter case and
\* surrounding whitespace ignored); on any other answer, or when reading
\* the answer fails, the command ends without any such call.
Thm_C27_NoCallBeforeYes ==
    /\ [](TargetCalled => skipConfirmation \/ Confirmed)
    /\ [](pc = "ended" => ~TargetCalled)
    /\ [][PromptStep]_vars

\* without --yes, the user answered yes and a target was stopped,
\* started or terminated
Wit_C27_ConfirmedThenTransition ==
    /\ ~skipConfirmation
    /\ Confirmed
    /\ \E k \in 1..Len(calls) :
           calls[k].api = TransitionAPI(op) /\ ~calls[k].failed

\* C28: a start, stop or terminate call is never issued for an instance
\* that does not carry the tag CreatedBy=Clouddley.
CE_C28_OnlyTaggedInstances ==
    \A k \in 1..Len(calls) :
        calls[k].api \in {TransitionAPI(o) : o \in Operations} =>
            calls[k].id \in TaggedInstances

\* the calls that create a network or a group, or launch an instance
NetworkOrLaunchAPIs ==
    {"CreateVpc", "CreateDefaultVpc", "CreateSubnet", "CreateDefaultSubnet",
     "RunInstances"} \cup MutatingSgAPIs

\* the lookup api answered without error and with an empty list: it is
\* the last call of the flow, which has ended with the message, and no
\* network, group or instance was created
EndsAtEmptyLookup(api, message) ==
    \A k \in 1..Len(createCalls) :
        (/\ createCalls[k].api = api
         /\ ~createCalls[k].failed
         /\ createCalls[k].arg = "empty") =>
            /\ k = Len(createCalls)
            /\ createPc = "aborted"
            /\ createErr = message
            /\ instanceID = ""
            /\ instanceState = Absent
            /\ sgCalls = <<>>
            /\ \A j \in 1..Len(createCalls) :
                   createCalls[j].api \notin NetworkOrLaunchAPIs

\* C29: when the region has no default VPC the creation fails with an
\* error that contains "no default VPC found", and when the default VPC
\* has no default subnet with one that contains "no default subnet
\* found"; no VPC or subnet is created, no security group is created and
\* no instance is launched.
Thm_C29_NoDefaultNetwork ==
    /\ EndsAtEmptyLookup("DescribeVpcs", "no default VPC found")
    /\ EndsAtEmptyLookup("DescribeSubnets", "no default subnet found")

\* the default VPC was found and has no default subnet
Wit_C29_NoDefaultSubnet ==
    /\ createErr = "no default subnet found"
    /\ network.vpc = "vpc-default"
    /\ createCalls[Len(createCalls)].api = "DescribeSubnets"
    /\ createCalls[Len(createCalls)].arg = "empty"

\* the messages of the setup failures of start, stop and delete
CommandSetupErrors ==
    {"Error: failed to load AWS config",
     "Error: AWS credentials invalid or AWS_PROFILE not set",
     "Failed to create EC2 client"}

\* C30: after a fatal setup failure the process exits with a nonzero
\* status, and a run in which only individual batch targets fail exits
\* with status 0.
CE_C30_ExitStatus ==
    /\ (pc = "ended" /\ cmdErr \in CommandSetupErrors) => Execute # 0
    /\ (pc = "done" /\ failed # <<>>) => Execute = 0

\* a key message was delivered to the spinner program in this step
KeyDelivered == loading'.keys = loading.keys + 1

\* the result the waiter task put on the channel decides how the wait ends
EndsByResult ==
    (createPc = "wait_recv" /\ createPc' # "wait_recv") =>
        /\ Len(doneChan) > 0
        /\ "waiter" \notin bgTask
        /\ createCalls[Len(createCalls)].api = "WaitInstanceRunning"
        /\ IF createCalls[Len(createCalls)].arg = "running"
           THEN createPc' = "refetch" /\ createErr' = NoError
           ELSE /\ createPc' = "aborted"
                /\ createErr' = "failed waiting for instance to be running"

\* a key changes neither the spinner nor anything of the wait
KeyIgnored ==
    KeyDelivered =>
        /\ loading'.model = loading.model
        /\ loading'.running = loading.running
        /\ loading'.ticking = loading.ticking
        /\ UNCHANGED <<createPc, createErr, createCalls, doneChan, bgTask,
                       instanceState, instanceID>>

\* C31: while the wait is in flight no key press, q and ctrl+c included,
\* makes the spinner quit, changes the spinner's state or changes the
\* outcome of the wait; the wait ends only through the result of the
\* background task (running, error or the timeout).
Thm_C31_KeysIgnoredDuringWait ==
    /\ [][KeyIgnored]_vars
    /\ [][EndsByResult]_vars
    /\ [](createPc = "wait_recv" => loading.running)

\* keys were pressed during the wait, the spinner had moved on, and the
\* wait ended with the timeout of the waiter
Wit_C31_KeysThenTimeout ==
    /\ loading.keys = MaxKeys
    /\ loading.model.frame > 0
    /\ createPc = "aborted"
    /\ createCalls[Len(createCalls)].arg = "timeout"

\* the value of the Name tag of an instance create launched
DisplayName(inst) == inst.tags[1].value

\* C32: any two instances created by this tool have distinct display
\* names of the form clouddley-vm-<time>, whatever the timing of the two
\* create runs.
CE_C32_DistinctNames ==
    \A i, j \in 1..Len(fleet) :
        (i # j /\ fleet[i].byCreate /\ fleet[j].byCreate) =>
            DisplayName(fleet[i]) # DisplayName(fleet[j])

\* the re-fetch of the launched instance, when it has answered with the
\* instance
Refetched ==
    SelectSeq(createCalls, LAMBDA c : /\ c.api = "DescribeInstances"
                                      /\ ~c.failed
                                      /\ c.arg # "empty")

\* C33: after the instance is running createInstance re-fetches it and
\* returns a record whose public address is the one the provider assigned,
\* or the empty value when none is assigned; a missing public address
\* never makes create fail.
Thm_C33_PublicAddress ==
    /\ Refetched # <<>> =>
           /\ Len(Refetched) = 1
           /\ createCalls[Len(createCalls)] = Refetched[1]
           /\ createErr = NoError
           /\ createPc \notin {"aborted", "crashed", "refetch"}
           /\ instanceState = "running"
           /\ publicIP = IF Refetched[1].arg = NilAddress THEN ""
                         ELSE Refetched[1].arg
    /\ Refetched = <<>> => publicIP = ""

\* the instance runs without a public address and create has returned
\* its record
Wit_C33_NoPublicAddress ==
    /\ Refetched # <<>>
    /\ Refetched[1].arg = NilAddress
    /\ createPc = "created"
    /\ publicIP = ""

\* the instances the list command was given that lack a name: no Name
\* tag, or a Name tag with the empty value
Unnamed(inst) ==
    \A k \in 1..Len(inst.tags) :
        inst.tags[k].key = "Name" => inst.tags[k].value = <<>>

\* the row of the instance with this id in the last list
RowsFor(id) == SelectSeq(listed.rows, LAMBDA row : row.InstanceID = id)

\* C34: in the list output an instance with no Name tag, or with a Name
\* tag of empty value, is shown with its instance id as its name; an
\* instance with a non-empty Name tag is shown with that value.
CE_C34_NameDefaultsToId ==
    \A i \in 1..Len(fleet) :
        RowsFor(fleet[i].id) # <<>> =>
            IF Unnamed(fleet[i])
            THEN RowsFor(fleet[i].id)[1].Name = fleet[i].id
            ELSE \E k \in 1..Len(fleet[i].tags) :
                     /\ fleet[i].tags[k].key = "Name"
                     /\ RowsFor(fleet[i].id)[1].Name = fleet[i].tags[k].value

\* the instances that carry the tag CreatedBy=Clouddley and are not
\* terminated
Listable ==
    {i \in 1..Len(fleet) :
        /\ \E k \in 1..Len(fleet[i].tags) :
               /\ fleet[i].tags[k].key = "CreatedBy"
               /\ fleet[i].tags[k].value = <<"Clouddley">>
        /\ fleet[i].state # "terminated"}

\* C36: every instance launched by create carries the tag
\* CreatedBy=Clouddley and a Name tag equal to its display name, and list
\* returns exactly the instances the provider reports for the tag filter
\* CreatedBy=Clouddley whose state is not terminated; so an instance
\* created by this tool is listed, in whatever non-terminated state it is,
\* until it is terminated.
Thm_C36_CreatedAreListed ==
    /\ \A i \in 1..Len(fleet) :
           fleet[i].byCreate =>
               /\ \E k \in 1..Len(fleet[i].tags) :
                      fleet[i].tags[k] = [key |-> "CreatedBy",
                                          value |-> <<"Clouddley">>]
               /\ \E k \in 1..Len(fleet[i].tags), t \in 0..now :
                      /\ fleet[i].tags[k].key = "Name"
                      /\ fleet[i].tags[k].value =
                             <<"clouddley-vm-">> \o Decimal(t)
    /\ (listed.ran /\ listed.err = NoError) =>
           /\ {listed.rows[r].InstanceID : r \in 1..Len(listed.rows)}
                  = {fleet[i].id : i \in Listable}
           /\ Len(listed.rows) = Cardinality(Listable)
           /\ \A i \in Listable :
                  /\ RowsFor(fleet[i].id)[1].State = fleet[i].state
                  /\ fleet[i].byCreate
                         => RowsFor(fleet[i].id)[1].Name = DisplayName(fleet[i])
           /\ \A i \in 1..Len(fleet) :
                  (fleet[i].byCreate /\ fleet[i].state # "terminated")
                      => i \in Listable
    /\ (listed.ran /\ listed.err # NoError) => listed.rows = <<>>

\* the list shows a created instance that is shutting down and leaves out
\* a terminated one
Wit_C36_ListedWhileShuttingDown ==
    /\ listed.ran
    /\ Len(fleet) = 2
    /\ fleet[1].byCreate /\ fleet[1].state = "terminated"
    /\ fleet[2].byCreate /\ fleet[2].state = "shutting-down"
    /\ Len(listed.rows) = 1
    /\ listed.rows[1].InstanceID = fleet[2].id

\* a local key file was read, or a key was imported
KeyReadOrImported ==
    \/ \E k \in 1..Len(fileOps) : fileOps[k].op = "ReadFile"
    \/ \E k \in 1..Len(createCalls) : createCalls[k].api = "ImportKeyPair"

\* the selection screen is left with the cancel signal or with the key
\* under a cursor that is inside the offered keys
ScreenYields ==
    (createPc = "keys_select" /\ createPc' # "keys_select") =>
        \/ /\ createPc' = "aborted"
           /\ createErr' = "operation cancelled"
           /\ selectedKey' = NoKey
           /\ ~keyModel'.selected
           /\ ~KeyReadOrImported'
        \/ /\ createPc' = "keys_read"
           /\ keyModel'.selected
           /\ keyModel'.cursor \in 0..(Len(localKeys) - 1)
           /\ selectedKey' = localKeys[keyModel'.cursor + 1]

\* C35: when exactly one local public key exists it is selected without
\* prompting; when several exist the selection screen yields, after any
\* sequence of up, down, enter and quit keys, either the cancel signal
\* (-1) or an index i with 0 <= i < number of offered keys, its cursor
\* never leaving that range; on cancel no key file is read and nothing is
\* imported.
Thm_C35_KeySelection ==
    /\ [](createPc = "keys_select" => Len(localKeys) >= 2)
    /\ []((Len(localKeys) = 1 /\ createPc # "keys_local") =>
              /\ selectedKey = localKeys[1]
              /\ keyModel = [cursor |-> 0, selected |-> FALSE])
    /\ [](Len(localKeys) >= 2 =>
              keyModel.cursor \in 0..(Len(localKeys) - 1))
    /\ [][ScreenYields]_vars
    /\ []((/\ createPc = "aborted" /\ createErr = "operation cancelled"
           /\ Len(localKeys) >= 2 /\ selectedKey = NoKey)
              => ~KeyReadOrImported)

\* the user moved down to the second key, selected it, and it was imported
Wit_C35_SecondKeyImported ==
    /\ Len(localKeys) = 2
    /\ keyModel = [cursor |-> 1, selected |-> TRUE]
    /\ selectedKey = localKeys[2]
    /\ keyPairRemote

\* the states from which the transition table allows the operation
AllowedFrom(o) ==
    {s \in LifecycleStates : TransitionTable[o][s] = Issue}

\* a transition call is sent to the provider in this step
TransitionSent ==
    /\ Len(calls') = Len(calls) + 1
    /\ calls'[Len(calls')].api = ApiOf[op]

\* the call is sent while the instance is, at the provider, in a state
\* from which the table allows the operation
SentOnlyWhenAllowed ==
    TransitionSent =>
        instances[calls'[Len(calls')].id] \in AllowedFrom(op)

\* C37: a start, stop or terminate call reaches the provider only while
\* the instance's state at the provider is one from which the transition
\* table allows that operation, also when the state is changed out-of-band,
\* or by another invocation of this tool, between the describe and the
\* transition call.
CE_C37_CallOnlyInAllowedState == [][SentOnlyWhenAllowed]_vars

\* C38: start, stop and terminate gate by deny-list: for every fetched
\* state name that is not in the operation's reject list, a name outside
\* the six-value enum such as shutting-down included, the transition call
\* is issued and its result decides success or failure.
Thm_C38_DenyList ==
    \A i \in 1..Len(output) :
        (FetchedAt(i) /\ <<op, StateAt(i)>> \notin RejectedPairs) =>
            /\ Len(CallsAt(i)) = 2
            /\ CallsAt(i)[2].api = ApiOf[op]
            /\ CallsAt(i)[2].id = instanceIDs[i]
            /\ output[i].kind = "success" <=> ~CallsAt(i)[2].failed
            /\ CallsAt(i)[2].failed =>
                   output[i].msg \in {"failed to start instance",
                                      "failed to stop instance",
                                      "failed to terminate instance"}

\* delete on an instance fetched as shutting-down issued the terminate
\* call, and start on one issued the start call, which the provider
\* refused
Wit_C38_ShuttingDownPasses ==
    /\ Len(output) >= 1
    /\ FetchedAt(1)
    /\ StateAt(1) = "shutting-down"
    /\ Len(CallsAt(1)) = 2
    /\ \/ op = "terminate" /\ output[1].kind = "success"
       \/ op = "start" /\ output[1].kind = "error"

====
